---------------------------- MODULE Spec2Model ----------------------------
(***************************************************************************)
(* Model of the csv_utils sort session (ext/csv_utils/src/sorter.rs), of   *)
(* the binary COPY emission it feeds (postgres_copier.rs, geometry.rs,     *)
(* binary_copy_file_writer.rs), of validate_csv (validator.rs) and of      *)
(* dedupe_csv (ext/csv_validator/src/generator.rs).                        *)
(*                                                                         *)
(* Strings and files are sequences of bytes (0..255).  A row is a sequence *)
(* of strings.  Files hold the bytes the code writes: bincode's legacy     *)
(* configuration (little-endian, fixed-width integers, u64 length          *)
(* prefixes) for records, PostgreSQL's binary COPY framing for the output. *)
(* A run file is held with the cursor of its File handle, which the reads  *)
(* and writes through that handle share; the intermediate file is rewound  *)
(* before every use, so its bytes are all the model keeps of it.           *)
(*                                                                         *)
(* Spec is the session lifecycle the interface describes: open, add_row*,  *)
(* sort, then any number of each_batch / write_binary_postgres_file calls. *)
(* The caller gives every row its own position, as the interface asks, and *)
(* no file operation fails in Spec.                                        *)
(*                                                                         *)
(* IOSpec is the session up to its sort with run files that can fail to be *)
(* created or written.  ResortSpec is the session that goes on after a     *)
(* sort: rows are added and sort is called again.  FileSpec is the session *)
(* fed by add_file.  CallbackSpec runs each_batch call by call of its      *)
(* block, which returns, raises or calls back into the session.            *)
(* The other specifications run one operation on its own                   *)
(* over all small inputs: KeySpec key derivation, RowSpec                  *)
(* BinaryCopyFileWriter::write_row, GeoSpec the geometry column of a COPY  *)
(* row and Geometry's EWKB, CopySpec PostgresCopier::copy on intermediate  *)
(* files that may be damaged, ValidateSpec validate_csv with and without   *)
(* its reversed output, DedupeSpec dedupe_csv.                             *)
(***************************************************************************)
EXTENDS Integers, Sequences, FiniteSets, TLC

(***************************************************************************)
(* Bounds of the model.                                                    *)
(***************************************************************************)
\* add_row calls of one session
MaxRows == 4
\* a session that goes on after a sort sorts at most MaxSorts times and
\* takes at most MaxResortRows add_row calls
MaxSorts == 2
MaxResortRows == 3
\* the caller's positions are drawn from 0..MaxPos
MaxPos == 3
\* the memory budget passed to Sorter::new is drawn from 0..MaxBufferMb
MaxBufferMb == 2
\* bytes of one budget unit; the code uses 1024 * 1024 (sorter.rs:307),
\* scaled down so that rows of a few bytes fill the budget
BytesPerMb == 80
\* the per-key cap; the code uses 200 (sorter.rs:17), scaled down so that a
\* key can exceed it within MaxRows rows
DEFAULT_MAX_TARGETING_KEY_ROWS == 2
\* each_batch is called with a batch size in 0..MaxBatchSize
MaxBatchSize == 2
\* key derivation on its own: at most MaxKeyCols configured key columns,
\* rows of at most MaxKeyRowLen columns, indices in 0..MaxKeyRowLen
MaxKeyCols == 2
MaxKeyRowLen == 2
\* add_file: at most MaxFiles calls per session, files of at most
\* MaxFileEvents records or parse errors after the header
MaxFiles == 2
MaxFileEvents == 3
\* write_row on its own: writers and rows of at most MaxColumns columns
MaxColumns == 3
\* the geometry column on its own: rows of at most MaxGeoRowLen fields,
\* latitude and longitude indices in 0..MaxGeoRowLen
MaxGeoRowLen == 2
\* copy on its own: input files of at most MaxCopyRecords records
MaxCopyRecords == 2
\* validate_csv: files of at most MaxValidateRows records of at most
\* MaxValidateColumns columns, patterns of at most MaxValidateColumns rules
MaxValidateRows == 2
MaxValidateColumns == 2
\* validate_csv's CHUNK_SIZE_BYTES (100 MB), scaled to the model's records
CHUNK_SIZE_BYTES == 4
\* dedupe_csv: files of at most MaxDedupeRows records, at most MaxKeep records
\* kept per key, buffers of 1 to MaxDedupeBufferMb units of DedupeBytesPerMb
\* bytes (1024 * 1024 in the code; 91 is the estimated size of one record of
\* the model)
MaxDedupeRows == 3
MaxKeep == 2
MaxDedupeBufferMb == 2
DedupeBytesPerMb == 91

(***************************************************************************)
(* Bytes and integers.                                                     *)
(***************************************************************************)
RECURSIVE to_le_bytes(_, _)
\* n as w little-endian bytes
to_le_bytes(n, w) ==
    IF w = 0 THEN <<>> ELSE <<n % 256>> \o to_le_bytes(n \div 256, w - 1)

RECURSIVE from_le_bytes(_)
from_le_bytes(bs) ==
    IF bs = <<>> THEN 0 ELSE Head(bs) + 256 * from_le_bytes(Tail(bs))

RECURSIVE to_be_bytes(_, _)
\* n >= 0 as w big-endian bytes
to_be_bytes(n, w) ==
    IF w = 0 THEN <<>> ELSE to_be_bytes(n \div 256, w - 1) \o <<n % 256>>

\* the n bytes that follow the first off bytes of bs
Take(bs, off, n) == SubSeq(bs, off + 1, off + n)

\* read_exact of n bytes at offset off succeeds
CanRead(bs, off, n) == off + n <= Len(bs)

\* the little-endian number is below 2^16; no file of the model reaches
\* 2^16 bytes, so a length or count that is not announces more than any holds
Below65536(bs) == \A i \in 3 .. Len(bs) : bs[i] = 0

\* read_exact of the record bytes succeeds: the bytes the u32 length at off
\* announces are in the file
CanReadRecord(bs, off) ==
    /\ Below65536(Take(bs, off, 4))
    /\ CanRead(bs, off + 4, from_le_bytes(Take(bs, off, 4)))

RECURSIVE Concat(_)
Concat(ss) == IF ss = <<>> THEN <<>> ELSE Head(ss) \o Concat(Tail(ss))

RECURSIVE SumLen(_)
SumLen(ss) == IF ss = <<>> THEN 0 ELSE Len(Head(ss)) + SumLen(Tail(ss))

(***************************************************************************)
(* Session configuration (the arguments of Sorter::new) and the rows the   *)
(* caller passes.                                                          *)
(***************************************************************************)
\* "s"
source_id == <<115>>
\* "k"
source_key == <<107>>
\* column 0 is the key column (indices are 0-based, as in the code)
key_columns == <<0>>

\* the rows ["a", ""] and ["b", "x"]
Rows == { << <<97>>, <<>> >>, << <<98>>, <<120>> >> }

Positions == 0 .. MaxPos

\* row.get(col) of a 0-based index
HasCol(row, col) == col + 1 <= Len(row)
Col(row, col) == row[col + 1]

(***************************************************************************)
(* Key derivation.                                                         *)
(***************************************************************************)
\* SHA-1 of the byte strings the model hashes (the digests are the real ones)
Sha1(m) ==
    CASE m = <<115, 44, 97>> ->
           <<19, 36, 60, 212, 90, 85, 232, 71, 239, 222,
             180, 112, 215, 204, 153, 90, 239, 50, 28, 106>>
      [] m = <<115, 44, 98>> ->
           <<59, 32, 134, 198, 244, 130, 235, 7, 55, 227,
             188, 196, 211, 249, 200, 117, 115, 246, 181, 239>>
      [] m = <<115, 44>> ->
           <<94, 99, 84, 226, 134, 43, 186, 197, 12, 138,
             100, 21, 245, 33, 206, 201, 98, 201, 194, 79>>
      [] m = <<115>> ->
           <<160, 241, 73, 10, 32, 208, 33, 28, 153, 123,
             68, 188, 53, 126, 25, 114, 222, 171, 138, 227>>
      [] m = <<115, 44, 120>> ->
           <<221, 134, 80, 40, 45, 224, 56, 237, 110, 238,
             51, 204, 119, 98, 161, 240, 14, 106, 45, 246>>
      [] m = <<115, 44, 48>> ->
           <<196, 25, 34, 23, 236, 12, 125, 209, 35, 8,
             132, 79, 114, 6, 39, 121, 186, 186, 127, 37>>
      [] m = <<115, 44, 49>> ->
           <<211, 149, 83, 146, 81, 129, 222, 143, 177, 243,
             96, 207, 3, 154, 172, 185, 236, 100, 220, 111>>
      [] m = <<115, 44, 45, 50>> ->
           <<234, 118, 64, 235, 66, 193, 233, 204, 114, 12,
             125, 242, 204, 184, 245, 21, 244, 48, 48, 98>>

RECURSIVE HashInput_CommaForMissing(_, _)
\* a key derivation that writes the comma before looking the column up
HashInput_CommaForMissing(row, cols) ==
    IF cols = <<>> THEN <<>>
    ELSE <<44>> \o (IF HasCol(row, Head(cols)) THEN Col(row, Head(cols)) ELSE <<>>)
         \o HashInput_CommaForMissing(row, Tail(cols))

RECURSIVE HashInput(_, _)
\* what generate_targeting_key feeds the hasher after the source id
HashInput(row, cols) ==
    IF cols = <<>> THEN <<>>
    ELSE (IF HasCol(row, Head(cols))
          THEN <<44>> \o Col(row, Head(cols))
          ELSE <<>>) \o HashInput(row, Tail(cols))

generate_targeting_key(row) == Sha1(source_id \o HashInput(row, key_columns))

\* std::mem::size_of::<KeyData>(): [u8; 20] and a usize, aligned to 8
KeyDataSize == 32

estimate_row_size(row) == KeyDataSize + SumLen(row)

\* a flush test that forgets the incoming row
would_exceed_buffer_IgnoresRow(size, row_size, budget) == size > budget

\* add_row's test "adding this row would exceed buffer size"
would_exceed_buffer(size, row_size, budget) == size + row_size > budget

(***************************************************************************)
(* The order of sort keys.                                                 *)
(***************************************************************************)
\* [u8; 20] comparison: -1, 0 or 1
CmpBytes(a, b) ==
    LET d == {i \in 1 .. Len(a) : a[i] # b[i]}
    IN  IF d = {} THEN 0
        ELSE LET i == CHOOSE j \in d : \A k \in d : j <= k
             IN  IF a[i] < b[i] THEN -1 ELSE 1

\* KeyData::cmp without the Reverse: positions ascending
KeyDataCmp_NoReverse(k1, k2) ==
    LET c == CmpBytes(k1.value, k2.value)
    IN  IF c # 0 THEN c
        ELSE IF k1.position < k2.position THEN -1
        ELSE IF k1.position > k2.position THEN 1
        ELSE 0

\* KeyData::cmp: (value, Reverse(position))
KeyDataCmp(k1, k2) ==
    LET c == CmpBytes(k1.value, k2.value)
    IN  IF c # 0 THEN c
        ELSE IF k1.position > k2.position THEN -1
        ELSE IF k1.position < k2.position THEN 1
        ELSE 0

\* SortRecord::cmp
SortRecordCmp(r1, r2) == KeyDataCmp(r1.key, r2.key)

IsSorted(recs) ==
    \A i \in 1 .. Len(recs) - 1 : SortRecordCmp(recs[i], recs[i + 1]) <= 0

\* a make_run that writes the batch in arrival order
sort_unstable_Skipped(batch) == {batch}

\* the orders in which sort_unstable can leave the batch: sorted, records
\* that compare equal in any order
sort_unstable(batch) ==
    LET n == Len(batch)
        ties == \E i, j \in 1 .. n : i < j /\ SortRecordCmp(batch[i], batch[j]) = 0
        rank(i) == Cardinality({j \in 1 .. n : SortRecordCmp(batch[j], batch[i]) < 0})
        perms == {p \in [1 .. n -> 1 .. n] : \A i, j \in 1 .. n : p[i] = p[j] => i = j}
    IN  IF ties
        THEN {s \in {[i \in 1 .. n |-> batch[p[i]]] : p \in perms} : IsSorted(s)}
        ELSE {[k \in 1 .. n |-> batch[CHOOSE i \in 1 .. n : rank(i) = k - 1]]}

(***************************************************************************)
(* bincode (legacy configuration) of KeyData and SortRecord.               *)
(***************************************************************************)
EncodeString(s) == to_le_bytes(Len(s), 8) \o s

RECURSIVE EncodeStrings(_)
EncodeStrings(row) ==
    IF row = <<>> THEN <<>>
    ELSE EncodeString(Head(row)) \o EncodeStrings(Tail(row))

EncodeKeyData(k) == k.value \o to_le_bytes(k.position, 8)

EncodeSortRecord(r) ==
    EncodeKeyData(r.key) \o to_le_bytes(Len(r.record), 8) \o EncodeStrings(r.record)

\* the encoded size of a KeyData (merge_runs_to_file's key_bytes buffer)
KeyBytesLen == Len(EncodeKeyData([value |-> [i \in 1 .. 20 |-> 0], position |-> 0]))

DecodeKeyData(bs) ==
    [value |-> SubSeq(bs, 1, 20), position |-> from_le_bytes(SubSeq(bs, 21, 28))]

RECURSIVE DecodeStrings(_, _, _)
DecodeStrings(bs, off, n) ==
    IF n = 0 THEN <<>>
    ELSE LET len == from_le_bytes(Take(bs, off, 8))
         IN  <<Take(bs, off + 8, len)>> \o DecodeStrings(bs, off + 8 + len, n - 1)

RECURSIVE CanDecodeStrings(_, _, _)
\* bincode finds n strings from offset off on: each length and its bytes
\* lie within the slice
CanDecodeStrings(bs, off, n) ==
    IF n = 0 THEN TRUE
    ELSE /\ CanRead(bs, off, 8)
         /\ Below65536(Take(bs, off, 8))
         /\ LET len == from_le_bytes(Take(bs, off, 8))
            IN  /\ CanRead(bs, off + 8, len)
                /\ CanDecodeStrings(bs, off + 8 + len, n - 1)

\* bincode::decode_from_slice::<SortRecord> returns Ok (bytes after the
\* record are not an error)
CanDecodeSortRecord(bs) ==
    /\ CanRead(bs, 0, 36)
    /\ Below65536(Take(bs, 28, 8))
    /\ CanDecodeStrings(bs, 36, from_le_bytes(Take(bs, 28, 8)))

DecodeSortRecord(bs) ==
    [key    |-> DecodeKeyData(SubSeq(bs, 1, 28)),
     record |-> DecodeStrings(bs, 36, from_le_bytes(Take(bs, 28, 8)))]

(***************************************************************************)
(* The validator's contract with add_row: validate_row returns true when   *)
(* the row has an error.  A field under the protocol rule fails when it is *)
(* non-empty and does not contain "://".                                   *)
(***************************************************************************)
\* field.contains("://")
ContainsProtocol(field) ==
    \E i \in 1 .. Len(field) - 2 :
        field[i] = 58 /\ field[i + 1] = 47 /\ field[i + 2] = 47

validate_row(rules, row) ==
    \E c \in 1 .. Len(rules) :
        /\ c <= Len(row)
        /\ rules[c] = "protocol"
        /\ row[c] # <<>>
        /\ ~ContainsProtocol(row[c])

\* the session's Option<Validator>: none, or the rules enable_validation
\* was called with
Validators ==
    {[some |-> FALSE, rules |-> <<>>], [some |-> TRUE, rules |-> <<"ignore", "protocol">>]}

(***************************************************************************)
(* Run files.                                                              *)
(***************************************************************************)
\* one record of a run file: [key] [size of record] [record bytes]
RunRecordBytes(r) ==
    LET rec == EncodeSortRecord(r)
    IN  EncodeKeyData(r.key) \o to_le_bytes(Len(rec), 4) \o rec

\* the bytes make_run writes for the sorted batch
RunFileBytes(sorted) == Concat([i \in 1 .. Len(sorted) |-> RunRecordBytes(sorted[i])])

\* a make_run that rewinds the file before it returns it
make_run_Rewound(sorted) == [bytes |-> RunFileBytes(sorted), pos |-> 0]

\* the File make_run returns for the sorted batch: tempfile(), written from
\* its start through a BufWriter on &temp and flushed; the handle is returned
\* as it is after the write (no rewind, no seek), so its cursor, which reads
\* through &File share with the writes, stands behind the last byte written
make_run(sorted) == [bytes |-> RunFileBytes(sorted), pos |-> Len(RunFileBytes(sorted))]

\* an output record framed as a run-file record, with the leading key
OutRecordBytes_WithKey(r) == RunRecordBytes(r)

\* one record of the output file: [size of record] [record bytes]
OutRecordBytes(r) ==
    LET rec == EncodeSortRecord(r)
    IN  to_le_bytes(Len(rec), 4) \o rec

\* writing new at the start of a rewound file that held old (no truncation)
Overwrite(old, new) ==
    IF Len(new) >= Len(old) THEN new ELSE new \o SubSeq(old, Len(new) + 1, Len(old))

\* write_records: the bytes written for the batch and the count
write_records(batch) ==
    [bytes |-> Concat([i \in 1 .. Len(batch) |-> OutRecordBytes(batch[i])]),
     count |-> Len(batch)]

\* reads the next key, record length and record bytes of a run file
ReadRunRecord(file, off) ==
    IF ~CanRead(file, off, KeyBytesLen) THEN [eof |-> TRUE]
    ELSE LET len == from_le_bytes(Take(file, off + KeyBytesLen, 4))
         IN  [eof          |-> FALSE,
              key          |-> DecodeKeyData(Take(file, off, KeyBytesLen)),
              record_bytes |-> Take(file, off + KeyBytesLen + 4, len),
              off          |-> off + KeyBytesLen + 4 + len]

RECURSIVE PrepareReaders(_)
\* the readers of merge_runs_to_file with their first records: each is a
\* BufReader on the &File of temp_files, which reads on from the cursor of
\* that File; a file whose first key cannot be read gets no reader
PrepareReaders(files) ==
    IF files = <<>> THEN <<>>
    ELSE LET first == ReadRunRecord(Head(files).bytes, Head(files).pos)
         IN  (IF first.eof THEN <<>>
              ELSE << [key          |-> first.key,
                       record_bytes |-> first.record_bytes,
                       file         |-> Head(files).bytes,
                       off          |-> first.off,
                       seen         |-> << [key |-> first.key,
                                            record_bytes |-> first.record_bytes] >>] >>)
             \o PrepareReaders(Tail(files))

\* the order of the heap's (KeyData, usize) entries
HeapCmp(h1, h2) ==
    LET c == KeyDataCmp(h1[1], h2[1])
    IN  IF c # 0 THEN c
        ELSE IF h1[2] < h2[2] THEN -1
        ELSE IF h1[2] > h2[2] THEN 1
        ELSE 0

\* BinaryHeap::pop: std's BinaryHeap is a max-heap, pop returns the greatest
HeapPop(heap) == CHOOSE h \in heap : \A g \in heap : HeapCmp(h, g) >= 0

RECURSIVE MergeLoop(_, _, _, _)
\* the while-let loop of merge_runs_to_file; reader indices are 0-based in
\* the heap as in the code
MergeLoop(heap, readers, out, count) ==
    IF heap = {} THEN [out |-> out, count |-> count, readers |-> readers]
    ELSE LET top == HeapPop(heap)
             src == top[2] + 1
             rd  == readers[src]
             written == out \o to_le_bytes(Len(rd.record_bytes), 4) \o rd.record_bytes
             nxt == ReadRunRecord(rd.file, rd.off)
         IN  IF nxt.eof
             THEN MergeLoop(heap \ {top}, readers, written, count + 1)
             ELSE MergeLoop((heap \ {top}) \cup {<<nxt.key, top[2]>>},
                            [readers EXCEPT ![src] =
                                [key          |-> nxt.key,
                                 record_bytes |-> nxt.record_bytes,
                                 file         |-> rd.file,
                                 off          |-> nxt.off,
                                 seen         |-> Append(rd.seen,
                                                    [key |-> nxt.key,
                                                     record_bytes |-> nxt.record_bytes])]],
                            written, count + 1)

\* merge_runs_to_file on a non-empty list of run files
merge_runs(files) ==
    LET readers == PrepareReaders(files)
        heap == {<<readers[i].key, i - 1>> : i \in 1 .. Len(readers)}
    IN  MergeLoop(heap, readers, <<>>, 0)

(***************************************************************************)
(* each_batch.                                                             *)
(***************************************************************************)
\* the ASCII code of a lower-case hex digit
HexDigit(d) == IF d < 10 THEN 48 + d ELSE 87 + d

\* format!("{:02x}") of every byte (and faster_hex's hex_encode)
HexEncode(bytes) ==
    Concat([i \in 1 .. Len(bytes) |-> <<HexDigit(bytes[i] \div 16), HexDigit(bytes[i] % 16)>>])

\* the [key_hex, row] item pushed to the batch; position is not part of the
\* item the consumer sees, it is kept so that properties can name the row
BatchItem(record) ==
    [key_hex |-> HexEncode(record.key.value), row |-> record.record,
     position |-> record.key.position]

\* last_key = [0u8; 20]
ZeroKey == [i \in 1 .. 20 |-> 0]

\* an each_batch without the cap
RunTooLong_Never(run_length) == FALSE

\* run_length > inner.max_targeting_key_rows: the record is not emitted
RunTooLong(run_length) == run_length > DEFAULT_MAX_TARGETING_KEY_ROWS

\* an each_batch that closes a batch as soon as it holds batch_size items
BatchIsFull_AnyKey(current_batch, batch_size, target_key, last_key) ==
    Len(current_batch) >= batch_size

\* an each_batch that closes the batch at every change of key
BatchIsFull_OnKeyChange(current_batch, batch_size, target_key, last_key) ==
    target_key # last_key

\* the batch is delivered before the record is pushed: it holds batch_size
\* items or more and the record starts another key
BatchIsFull(current_batch, batch_size, target_key, last_key) ==
    Len(current_batch) >= batch_size /\ target_key # last_key

RECURSIVE EachBatchLoop(_, _, _, _, _, _, _)
\* the loop of each_batch and the final yield: the batches the block is
\* called with, in order; ok is false when a record could not be read or
\* decoded, which ends the call with the batches delivered so far
EachBatchLoop(file, off, batch_size, current_batch, last_key, run_length, delivered) ==
    IF ~CanRead(file, off, 4)
    THEN [batches |-> IF current_batch # <<>>
                      THEN Append(delivered, current_batch) ELSE delivered,
          ok |-> TRUE]
    ELSE LET len == from_le_bytes(Take(file, off, 4))
         IN  IF ~CanReadRecord(file, off)
             THEN [batches |-> delivered, ok |-> FALSE]
             ELSE IF ~CanDecodeSortRecord(Take(file, off + 4, len))
             THEN [batches |-> delivered, ok |-> FALSE]
             ELSE LET record == DecodeSortRecord(Take(file, off + 4, len))
                      target_key == record.key.value
                      rl == IF current_batch # <<>> /\ target_key = last_key
                            THEN run_length + 1 ELSE 1
                      full == BatchIsFull(current_batch, batch_size, target_key, last_key)
                  IN  IF RunTooLong(rl)
                      THEN EachBatchLoop(file, off + 4 + len, batch_size,
                                         current_batch, last_key, rl, delivered)
                      ELSE EachBatchLoop(file, off + 4 + len, batch_size,
                                         Append(IF full THEN <<>> ELSE current_batch,
                                                BatchItem(record)),
                                         target_key, rl,
                                         IF full THEN Append(delivered, current_batch)
                                         ELSE delivered)

\* an each_batch without the yield of the remaining records
each_batch_NoFinalYield(file, batch_size) ==
    LET r == EachBatchLoop(file, 0, batch_size, <<>>, ZeroKey, 0, <<>>)
    IN  [batches |-> SubSeq(r.batches, 1, Len(r.batches) - 1), ok |-> r.ok]

each_batch(file, batch_size) == EachBatchLoop(file, 0, batch_size, <<>>, ZeroKey, 0, <<>>)

RECURSIVE EachBatchToCall(_, _, _, _, _, _)
\* each_batch's loop from the record at off up to its next call of the
\* block: kind is "call" for the call inside the loop, "last" for the yield
\* of the remaining records, "end" when nothing remains to yield, "error"
\* for a record that cannot be read or decoded; batch is what the block is
\* given, the other fields are the loop's variables when the block returns
EachBatchToCall(file, off, batch_size, current_batch, last_key, run_length) ==
    LET stop(kind, batch, at) ==
            [kind |-> kind, batch |-> batch, off |-> at, current_batch |-> <<>>,
             last_key |-> last_key, run_length |-> run_length]
    IN  IF ~CanRead(file, off, 4)
        THEN IF current_batch # <<>>
             THEN stop("last", current_batch, Len(file))
             ELSE stop("end", <<>>, Len(file))
        ELSE LET len == from_le_bytes(Take(file, off, 4))
             IN  IF ~CanReadRecord(file, off)
                 THEN stop("error", <<>>, Len(file))
                 ELSE IF ~CanDecodeSortRecord(Take(file, off + 4, len))
                 THEN stop("error", <<>>, off + 4 + len)
                 ELSE LET record == DecodeSortRecord(Take(file, off + 4, len))
                          target_key == record.key.value
                          rl == IF current_batch # <<>> /\ target_key = last_key
                                THEN run_length + 1 ELSE 1
                      IN  IF RunTooLong(rl)
                          THEN EachBatchToCall(file, off + 4 + len, batch_size,
                                               current_batch, last_key, rl)
                          ELSE IF BatchIsFull(current_batch, batch_size,
                                              target_key, last_key)
                          THEN [kind |-> "call", batch |-> current_batch,
                                off |-> off + 4 + len,
                                current_batch |-> <<BatchItem(record)>>,
                                last_key |-> target_key, run_length |-> rl]
                          ELSE EachBatchToCall(file, off + 4 + len, batch_size,
                                               Append(current_batch, BatchItem(record)),
                                               target_key, rl)

(***************************************************************************)
(* The binary COPY output.                                                 *)
(***************************************************************************)
\* "PGCOPY\n\xff\r\n\0"
HEADER_MAGIC == <<80, 71, 67, 79, 80, 89, 10, 255, 13, 10, 0>>

\* write_header without the header extension length
write_header_NoExtension == HEADER_MAGIC \o to_be_bytes(0, 4)

\* write_header: the signature, the flags and the header extension length
write_header == HEADER_MAGIC \o to_be_bytes(0, 4) \o to_be_bytes(0, 4)

\* a trailer of 0 instead of -1
write_footer_Zero == <<0, 0>>

\* write_footer: -1 as a big-endian i16
write_footer == <<255, 255>>

\* a non-null column: its length as a big-endian i32, then its bytes
ColumnBytes(payload) == to_be_bytes(Len(payload), 4) \o payload

\* a NULL column: the length -1 and no bytes
NullColumn == <<255, 255, 255, 255>>

\* a String as VARCHAR: its bytes
VarcharToSql(s) == s

\* a Vec<String> as VARCHAR[]: one dimension, no nulls, the element type's
\* oid (1043), the length, the lower bound 1, then each element
VarcharArrayToSql(row) ==
    to_be_bytes(1, 4) \o to_be_bytes(0, 4) \o to_be_bytes(1043, 4)
    \o to_be_bytes(Len(row), 4) \o to_be_bytes(1, 4)
    \o Concat([i \in 1 .. Len(row) |-> ColumnBytes(row[i])])

\* a SystemTime as TIMESTAMP: microseconds since 2000-01-01 as an i64
TimestampToSql(micros) == to_be_bytes(micros, 8)

\* Option<T>: None is the empty sequence, Some(v) the sequence of v alone
None == <<>>
Some(v) == <<v>>

RECURSIVE DecimalValue(_)
\* the value of a string of ASCII digits
DecimalValue(ds) ==
    IF ds = <<>> THEN 0
    ELSE 10 * DecimalValue(SubSeq(ds, 1, Len(ds) - 1)) + (ds[Len(ds)] - 48)

\* the IEEE-754 double of the integer n (0 <= n < 32), negated when neg, as
\* the 8 bytes write_f64::<LittleEndian> writes: 52 fraction bits of which
\* only the top 4 can be set, 11 exponent bits biased by 1023, the sign
F64Bytes(neg, n) ==
    LET sign == IF neg THEN 128 ELSE 0
        e    == CHOOSE k \in 0 .. 4 : 2^k <= n /\ n < 2^(k + 1)
        exp  == 1023 + e
        frac == (n - 2^e) * 2^(4 - e)
    IN  IF n = 0 THEN <<0, 0, 0, 0, 0, 0, 0, sign>>
        ELSE <<0, 0, 0, 0, 0, 0, (exp % 16) * 16 + frac, sign + exp \div 16>>

\* str::parse::<f64> on the strings of this model (an optional sign and
\* decimal digits, or something that is no number): Some(bytes of the
\* double) or None for the Err
parse_f64(s) ==
    LET signed == s # <<>> /\ s[1] \in {43, 45}
        digits == IF signed THEN Tail(s) ELSE s
    IN  IF digits = <<>> \/ \E i \in 1 .. Len(digits) : digits[i] \notin 48 .. 57
        THEN None
        ELSE Some(F64Bytes(signed /\ s[1] = 45, DecimalValue(digits)))

\* Geometry::new: a point without z and m
Geometry_new(x, y, srid) == [srid |-> srid, x |-> x, y |-> y, z |-> None, m |-> None]

\* postgis' Point::new(x, y, srid): a point that has no z and no m
Point_new(x, y, srid) == Geometry_new(x, y, srid)

\* type_id with the SRID flag left out
type_id_NoSridFlag(g) ==
    [hi |-> (IF g.z # None THEN 32768 ELSE 0) + (IF g.m # None THEN 16384 ELSE 0),
     lo |-> 1]

\* EwkbWrite::type_id, a u32 kept as its two 16-bit halves: 0x01 for a
\* point, | 0x80000000 with z, | 0x40000000 with m, | 0x20000000 with an SRID
type_id(g) ==
    [hi |-> (IF g.z # None THEN 32768 ELSE 0) + (IF g.m # None THEN 16384 ELSE 0)
            + (IF g.srid # None THEN 8192 ELSE 0),
     lo |-> 1]

\* write_ewkb_body: x, y, then z and m when present, as little-endian doubles
write_ewkb_body(g) ==
    g.x \o g.y \o (IF g.z # None THEN g.z[1] ELSE <<>>)
               \o (IF g.m # None THEN g.m[1] ELSE <<>>)

\* to_sql through write_ewkb: the byte order mark 01, the type id as a
\* little-endian u32, the SRID as a little-endian i32 when there is one,
\* the body
write_ewkb(g) ==
    <<1>> \o to_le_bytes(type_id(g).lo, 2) \o to_le_bytes(type_id(g).hi, 2)
          \o (IF g.srid # None THEN to_le_bytes(g.srid[1], 4) ELSE <<>>)
          \o write_ewkb_body(g)

\* generate_geo_key answering the origin where the code answers None
generate_geo_key_ZeroPoint(geo_indexes, row) ==
    Some(Point_new(F64Bytes(FALSE, 0), F64Bytes(FALSE, 0), Some(4326)))

\* generate_geo_key for geo_indexes = <<lat_idx, lon_idx>> (0-based)
generate_geo_key(geo_indexes, row) ==
    LET lat_idx == geo_indexes[1]
        lon_idx == geo_indexes[2]
    IN  IF lat_idx >= Len(row) THEN None
        ELSE IF lon_idx >= Len(row) THEN None
        ELSE LET latitude  == parse_f64(row[lat_idx + 1])
                 longitude == parse_f64(row[lon_idx + 1])
             IN  IF latitude = None THEN None
                 ELSE IF longitude = None THEN None
                 ELSE Some(Point_new(longitude[1], latitude[1], Some(4326)))

\* iter_records' item for one record read by a copier of the given
\* geo_indexes (None or Some(<<lat_idx, lon_idx>>))
iter_item(geo_indexes, record) ==
    [target_key |-> record.key.value,
     geo_key    |-> IF geo_indexes # None
                    THEN generate_geo_key(geo_indexes[1], record.record)
                    ELSE None,
     record     |-> record.record]

\* SorterInner.geo_columns of the sessions: Sorter::new is given no geo columns
geo_columns == None

\* iter_records' item for one record of a session's intermediate file
RowItem(record) == iter_item(geo_columns, record)

\* a value handed to write_row: the SQL type its Rust type accepts, whether
\* it is None, and the bytes its to_sql writes
SqlValue(accepts, bytes) == [accepts |-> accepts, null |-> FALSE, bytes |-> bytes]
SqlNone(accepts) == [accepts |-> accepts, null |-> TRUE, bytes |-> <<>>]

\* to_sql_checked: an error when the value's type does not accept the
\* column's type, else IsNull and the bytes left in the buffer
to_sql_checked(ty, val) ==
    IF val.accepts # ty THEN [ok |-> FALSE, null |-> FALSE, bytes |-> <<>>]
    ELSE [ok |-> TRUE, null |-> val.null, bytes |-> val.bytes]

RECURSIVE WriteColumns(_, _, _, _)
\* the for loop of write_row from column i on (1-based here): what reaches
\* w, and whether every column was encoded
WriteColumns(types, row, i, out) ==
    IF i > Len(row) THEN [out |-> out, ok |-> TRUE, error |-> "none"]
    ELSE LET r == to_sql_checked(types[i], row[i])
         IN  IF ~r.ok THEN [out |-> out, ok |-> FALSE, error |-> "InvalidInput"]
             ELSE WriteColumns(types, row, i + 1,
                               out \o (IF r.null THEN NullColumn ELSE ColumnBytes(r.bytes)))

\* write_row with the column count written before the length check
write_row_typed_CountFirst(types, row) ==
    IF Len(row) # Len(types)
    THEN [out |-> to_be_bytes(Len(row), 2), ok |-> FALSE, error |-> "InvalidInput"]
    ELSE WriteColumns(types, row, 1, to_be_bytes(Len(row), 2))

\* BinaryCopyFileWriter::write_row for a writer of the given types: the
\* bytes that reach w, whether the call returned Ok, and the kind of the
\* io::Error it returned otherwise
write_row_typed(types, row) ==
    IF Len(row) # Len(types)
    THEN [out |-> <<>>, ok |-> FALSE, error |-> "InvalidInput"]
    ELSE WriteColumns(types, row, 1, to_be_bytes(Len(row), 2))

\* the column types PostgresCopier::copy creates its writer with
CopyTypes == <<"VARCHAR", "VARCHAR", "geometry", "VARCHAR[]", "TIMESTAMP", "TIMESTAMP">>

\* the row copy builds for one item and hands to write_row
write_row(item, now) ==
    write_row_typed(CopyTypes,
        << SqlValue("VARCHAR", VarcharToSql(source_key)),
           SqlValue("VARCHAR", VarcharToSql(HexEncode(item.target_key))),
           IF item.geo_key = None THEN SqlNone("geometry")
           ELSE SqlValue("geometry", write_ewkb(item.geo_key[1])),
           SqlValue("VARCHAR[]", VarcharArrayToSql(item.record)),
           SqlValue("TIMESTAMP", TimestampToSql(now)),
           SqlValue("TIMESTAMP", TimestampToSql(now)) >>).out

RECURSIVE CopyLoop(_, _, _, _, _, _)
\* the for loop of PostgresCopier::copy over iter_records: the bytes written
\* after the header, the items written, whether the loop ended without an
\* error, and the error otherwise.  A failed read of the 4-byte length ends
\* the iteration (iter_records returns None); a failed read of the payload
\* and a failed decode are items that are errors.  fails_at is None, or
\* Some(k) when the output stops accepting bytes at the write of row k
\* (0-based): that write_row returns the error with nothing of its row
\* written.
CopyLoop(file, off, now, out, items, fails_at) ==
    IF ~CanRead(file, off, 4)
    THEN [out |-> out, items |-> items, ok |-> TRUE, error |-> "none"]
    ELSE LET len == from_le_bytes(Take(file, off, 4))
         IN  IF ~CanReadRecord(file, off)
             THEN [out |-> out, items |-> items, ok |-> FALSE, error |-> "UnexpectedEof"]
             ELSE IF ~CanDecodeSortRecord(Take(file, off + 4, len))
             THEN [out |-> out, items |-> items, ok |-> FALSE, error |-> "InvalidData"]
             ELSE IF fails_at = Some(Len(items))
             THEN [out |-> out, items |-> items, ok |-> FALSE, error |-> "write"]
             ELSE LET item == RowItem(DecodeSortRecord(Take(file, off + 4, len)))
                  IN  CopyLoop(file, off + 4 + len, now,
                               out \o write_row(item, now), Append(items, item),
                               fails_at)

\* PostgresCopier::copy on an output whose writes fail as fails_at says: the
\* file written, the items it holds, the result
copy_to(file, now, fails_at) ==
    LET body == CopyLoop(file, 0, now, <<>>, <<>>, fails_at)
    IN  [file  |-> write_header \o body.out \o (IF body.ok THEN write_footer ELSE <<>>),
         items |-> body.items,
         ok    |-> body.ok,
         error |-> body.error]

\* PostgresCopier::copy on an output that accepts every write
copy(file, now) == copy_to(file, now, None)

(***************************************************************************)
(* The session.                                                            *)
(***************************************************************************)
VARIABLES
    buffer_size_bytes,    \* SorterInner.buffer_size_bytes
    validator,            \* SorterInner.validator
    current_batch,        \* SorterInner.current_batch: sequence of SortRecords
    current_buffer_size,  \* SorterInner.current_buffer_size
    temp_files,           \* SorterInner.temp_files: each run file's bytes and cursor
    output_file,          \* SorterInner.output_file: its bytes
    total_rows,           \* SorterInner.total_rows
    ret,                  \* the last operation: its arguments, what it returned or delivered
    admitted,             \* history: the records of the add_row calls that returned true
    add_calls,            \* history: the number of add_row calls
    positions_used,       \* history: the positions add_row was called with
    sorts,                \* history: the number of sort calls
    runs_written,         \* history: the records make_run wrote to each run file
    runs_read,            \* history: the records the last merge read from each run file
    reading,              \* add_file's loop: the reader's file, the events read, position
    calling               \* each_batch's loop while the block runs: the borrow, the reader

vars == <<buffer_size_bytes, validator, current_batch, current_buffer_size,
          temp_files, output_file, total_rows, ret, admitted, add_calls,
          positions_used, sorts, runs_written, runs_read, reading, calling>>

\* every variable but ret
session_vars == <<buffer_size_bytes, validator, current_batch, current_buffer_size,
                  temp_files, output_file, total_rows, admitted, add_calls,
                  positions_used, sorts, runs_written, runs_read, reading, calling>>

\* every variable but ret and reading
session_vars_but_reading ==
    <<buffer_size_bytes, validator, current_batch, current_buffer_size,
      temp_files, output_file, total_rows, admitted, add_calls,
      positions_used, sorts, runs_written, runs_read, calling>>

\* no add_file call so far
NotReading == [active |-> FALSE, files |-> 0, events |-> <<>>, next |-> 0,
               position |-> 0, passed |-> <<>>]

\* no each_batch call so far
NotCalling == [active |-> FALSE, off |-> 0]

\* Sorter::new
Init ==
    /\ \E buffer_size_mb \in 0 .. MaxBufferMb :
           buffer_size_bytes = buffer_size_mb * BytesPerMb
    /\ validator \in Validators
    /\ current_batch = <<>>
    /\ current_buffer_size = 0
    /\ temp_files = <<>>
    /\ output_file = <<>>
    /\ total_rows = 0
    /\ ret = [op |-> "new"]
    /\ admitted = <<>>
    /\ add_calls = 0
    /\ positions_used = {}
    /\ sorts = 0
    /\ runs_written = <<>>
    /\ runs_read = <<>>
    /\ reading = NotReading
    /\ calling = NotCalling

\* an add_row that ignores the validator's verdict
rejects_Never(v, row) == FALSE

\* add_row's early return: a validator is enabled and validate_row reports
\* an error for the row
rejects(v, row) == v.some /\ validate_row(v.rules, row)

\* what can happen to make_run: "ok"; "create", tempfile() fails after the
\* batch was sorted in place, the batch and the footprint stay; "write", a
\* write or the flush fails, the early return drops the Drain, which empties
\* the batch, the file is discarded and the footprint is not reset
RunOutcomes == {"ok", "create", "write"}

\* Sorter::add_row(row, position) when make_run, if it is called, ends as
\* run says: the flush of a full batch to a run file, the validator's
\* verdict, the push; observed_max_row_size, which only feeds the summary's
\* max_row_memory_usage, is left out
add_row(row, position, run) ==
    /\ add_calls < MaxRows
    /\ LET key == [value |-> generate_targeting_key(row), position |-> position]
           row_size == estimate_row_size(row)
           flush == /\ would_exceed_buffer(current_buffer_size, row_size,
                                           buffer_size_bytes)
                    /\ current_batch # <<>>
           written == flush /\ run = "ok"
           rejected == rejects(validator, row)
       IN  \E sorted \in (IF flush THEN sort_unstable(current_batch) ELSE {<<>>}) :
               LET batch == IF ~flush THEN current_batch
                            ELSE IF run = "create" THEN sorted
                            ELSE <<>>
                   size  == IF written THEN 0 ELSE current_buffer_size
               IN  /\ temp_files' = IF written THEN Append(temp_files, make_run(sorted))
                                     ELSE temp_files
                   /\ runs_written' = IF written THEN Append(runs_written, sorted)
                                       ELSE runs_written
                   /\ current_batch' = IF rejected THEN batch
                                        ELSE Append(batch, [key |-> key, record |-> row])
                   /\ current_buffer_size' = IF rejected THEN size ELSE size + row_size
                   /\ admitted' = IF rejected THEN admitted
                                   ELSE Append(admitted, [key |-> key, record |-> row])
                   /\ ret' = [op |-> "add_row", accepted |-> ~rejected,
                              row |-> row, position |-> position,
                              run_error |-> IF flush /\ ~written THEN run ELSE "none"]
    /\ add_calls' = add_calls + 1
    /\ positions_used' = positions_used \cup {position}
    /\ UNCHANGED <<buffer_size_bytes, validator, output_file, total_rows, sorts, runs_read>>

\* add_row before the session's sort, called by a caller that gives every
\* row its own position, without a failing file operation
AddRow(row, position) ==
    /\ sorts = 0
    /\ ~reading.active
    /\ position \notin positions_used
    /\ add_row(row, position, "ok")
    /\ UNCHANGED <<reading, calling>>

\* Sorter::sort when make_run, if it is called, ends as run says; the
\* summary's memory and validation counters are left out
sort(run) ==
    /\ ~reading.active
    /\ LET temp_file_count == Len(temp_files)
       IN  IF temp_files = <<>> /\ current_batch # <<>>
           THEN \* sort_in_memory_to_file
                \E sorted \in sort_unstable(current_batch) :
                    LET w == write_records(sorted)
                    IN  /\ output_file' = Overwrite(output_file, w.bytes)
                        /\ total_rows' = w.count
                        /\ ret' = [op |-> "sort", ok |-> TRUE, total_rows |-> w.count,
                                   file_count |-> temp_file_count, merged |-> 0,
                                   run_error |-> "none"]
                        /\ current_batch' = <<>>
                        /\ current_buffer_size' = 0
                        /\ UNCHANGED <<temp_files, runs_written>>
                        /\ runs_read' = <<>>
           ELSE \* make_run for the remaining records, then merge_runs_to_file
                \E sorted \in (IF current_batch # <<>>
                                THEN sort_unstable(current_batch) ELSE {<<>>}) :
                    LET written == current_batch # <<>> /\ run = "ok"
                        failed == current_batch # <<>> /\ run # "ok"
                        files == IF written
                                 THEN Append(temp_files, make_run(sorted))
                                 ELSE temp_files
                        m == IF files = <<>>
                             THEN [out |-> <<>>, count |-> 0, readers |-> <<>>]
                             ELSE merge_runs(files)
                    IN  /\ output_file' = IF files = <<>> THEN output_file
                                           ELSE Overwrite(output_file, m.out)
                        /\ total_rows' = m.count
                        /\ ret' = [op |-> "sort", ok |-> TRUE, total_rows |-> m.count,
                                   file_count |-> temp_file_count,
                                   merged |-> Len(files),
                                   run_error |-> IF failed THEN run ELSE "none"]
                        /\ temp_files' = <<>>
                        /\ runs_written' = IF written THEN Append(runs_written, sorted)
                                            ELSE runs_written
                        /\ runs_read' = [i \in 1 .. Len(m.readers) |-> m.readers[i].seen]
                        /\ current_batch' = IF failed /\ run = "create" THEN sorted
                                             ELSE <<>>
                        /\ current_buffer_size' = IF written THEN 0
                                                   ELSE current_buffer_size
    /\ sorts' = sorts + 1
    /\ UNCHANGED <<buffer_size_bytes, validator, admitted, add_calls, positions_used,
                   reading, calling>>

\* the session's one sort, without a failing file operation
Sort == sorts = 0 /\ sort("ok")

\* Sorter::each_batch(batch_size) with a block that does not raise
EachBatch(batch_size) ==
    /\ sorts > 0
    /\ LET r == each_batch(output_file, batch_size)
       IN  ret' = [op |-> "each_batch", batch_size |-> batch_size,
                   batches |-> r.batches, ok |-> r.ok]
    /\ UNCHANGED <<buffer_size_bytes, validator, current_batch, current_buffer_size,
                   temp_files, output_file, total_rows, admitted, add_calls,
                   positions_used, sorts, runs_written, runs_read, reading, calling>>

\* Sorter::write_binary_postgres_file; now is SystemTime::now()
WriteBinaryPostgresFile ==
    /\ sorts > 0
    /\ \E now \in {1000} :
           LET r == copy(output_file, now)
           IN  ret' = [op |-> "write_binary_postgres_file", file |-> r.file,
                       items |-> r.items, ok |-> r.ok]
    /\ UNCHANGED <<buffer_size_bytes, validator, current_batch, current_buffer_size,
                   temp_files, output_file, total_rows, admitted, add_calls,
                   positions_used, sorts, runs_written, runs_read, reading, calling>>

Next ==
    \/ \E row \in Rows, position \in Positions : AddRow(row, position)
    \/ Sort
    \/ \E batch_size \in 0 .. MaxBatchSize : EachBatch(batch_size)
    \/ WriteBinaryPostgresFile

Spec == Init /\ [][Next]_vars

(***************************************************************************)
(* The session up to its sort when creating or writing a run file can      *)
(* fail: every make_run of add_row and of sort ends in one of RunOutcomes. *)
(***************************************************************************)
AddRowIO(row, position) ==
    /\ sorts = 0
    /\ position \notin positions_used
    /\ \E run \in RunOutcomes : add_row(row, position, run)
    /\ UNCHANGED <<reading, calling>>

SortIO == sorts = 0 /\ \E run \in RunOutcomes : sort(run)

IONext ==
    \/ \E row \in Rows, position \in Positions : AddRowIO(row, position)
    \/ SortIO

IOSpec == Init /\ [][IONext]_vars

(***************************************************************************)
(* Sessions that go on after a sort: add_row and sort are called in any    *)
(* order, sort up to MaxSorts times, add_row up to MaxResortRows times.    *)
(* Nothing in Sorter keeps a sorted session from taking rows or from       *)
(* sorting again.                                                          *)
(***************************************************************************)
AddRowAnytime(row, position) ==
    /\ add_calls < MaxResortRows
    /\ ~reading.active
    /\ position \notin positions_used
    /\ add_row(row, position, "ok")
    /\ UNCHANGED <<reading, calling>>

SortAnytime == sorts < MaxSorts /\ sort("ok")

ResortNext ==
    \/ \E row \in Rows, position \in Positions : AddRowAnytime(row, position)
    \/ SortAnytime
    \/ \E batch_size \in 1 .. MaxBatchSize : EachBatch(batch_size)
    \/ WriteBinaryPostgresFile

ResortSpec == Init /\ [][ResortNext]_vars

(***************************************************************************)
(* Sessions fed by add_file.  A file is what csv::Reader::read_record      *)
(* returns for it after the header: a sequence of events, each a record    *)
(* (Ok(true) and the row) or a parse error (Err); the end of the sequence  *)
(* is Ok(false).  add_file is a loop of add_row calls; reading holds where *)
(* the loop is, and no other operation runs while it is active.            *)
(***************************************************************************)
\* the events of a file: a record with its row, or a parse error
FileEvents ==
    {[ok |-> TRUE, row |-> row] : row \in Rows} \cup {[ok |-> FALSE, row |-> <<>>]}

Files == UNION {[1 .. n -> FileEvents] : n \in 0 .. MaxFileEvents}

RECURSIVE RecordCount(_)
\* the number of records among the events
RecordCount(events) ==
    IF events = <<>> THEN 0
    ELSE (IF Head(events).ok THEN 1 ELSE 0) + RecordCount(Tail(events))

\* add_file up to its loop: the file is opened, the reader created,
\* position = 0
AddFileOpen(events) ==
    /\ ~reading.active
    /\ sorts = 0
    /\ reading.files < MaxFiles
    /\ add_calls + RecordCount(events) <= MaxRows
    /\ reading' = [active |-> TRUE, files |-> reading.files + 1, events |-> events,
                   next |-> 0, position |-> 0, passed |-> <<>>]
    /\ UNCHANGED <<ret, session_vars_but_reading>>

\* one turn of the loop on Ok(true): the row goes to add_row with the
\* current position, whose result is ignored; position += 1
AddFileRecord ==
    /\ reading.active
    /\ reading.next < Len(reading.events)
    /\ reading.events[reading.next + 1].ok
    /\ add_row(reading.events[reading.next + 1].row, reading.position, "ok")
    /\ reading' = [reading EXCEPT
                      !.next = @ + 1,
                      !.position = @ + 1,
                      !.passed = Append(@, [row |-> reading.events[reading.next + 1].row,
                                            position |-> reading.position])]
    /\ UNCHANGED calling

\* a loop that does not count the records it could not parse
AddFileError_NoAdvance ==
    /\ reading.active
    /\ reading.next < Len(reading.events)
    /\ ~reading.events[reading.next + 1].ok
    /\ reading' = [reading EXCEPT !.next = @ + 1]
    /\ UNCHANGED <<ret, session_vars_but_reading>>

\* one turn of the loop on Err: position += 1 and the loop continues (the
\* validator's parse error log and counter are left out)
AddFileError ==
    /\ reading.active
    /\ reading.next < Len(reading.events)
    /\ ~reading.events[reading.next + 1].ok
    /\ reading' = [reading EXCEPT !.next = @ + 1, !.position = @ + 1]
    /\ UNCHANGED <<ret, session_vars_but_reading>>

\* the loop's exit on Ok(false): add_file returns Ok(())
AddFileEnd ==
    /\ reading.active
    /\ reading.next = Len(reading.events)
    /\ reading' = [reading EXCEPT !.active = FALSE]
    /\ ret' = [op |-> "add_file"]
    /\ UNCHANGED session_vars_but_reading

FileNext ==
    \/ \E events \in Files : AddFileOpen(events)
    \/ AddFileRecord
    \/ AddFileError
    \/ AddFileEnd

FileSpec == Init /\ [][FileNext]_vars

(***************************************************************************)
(* each_batch with its block.  each_batch borrows the session, rewinds the *)
(* intermediate file and runs its loop up to the first call of the block;  *)
(* calling holds the loop's variables while the block runs.  The block     *)
(* returns or raises, and before that it may call any operation of the     *)
(* session it was given by: each of them begins by borrowing the session.  *)
(* Ruby runs one thread of the session at a time, so while the block runs  *)
(* the calls of the block are the only ones.                               *)
(***************************************************************************)
\* a reader that goes on where the last call's reader stopped
rewind_NoSeek(off) == off

\* File::rewind: the offset the reader starts from
rewind(off) == 0

\* a RefCell that lends the session any number of times
Borrowed_Never == FALSE

\* the RefCell's flag: each_batch holds its borrow_mut until it returns
Borrowed == calling.active

\* a block call whose error is dropped
CallFailed_Ignored(raised) == FALSE

\* block.call(args)?: the early return on the block's exception
CallFailed(raised) == raised

\* the block's files for add_file: no event or one event after the header
BlockFiles == {<<>>} \cup {<<e>> : e \in FileEvents}

\* each_batch returns: Ok(()) after the loop, or the error of a record, or
\* the block's exception; the borrow ends
EachBatchReturns(batch_size, batches, ok, raised, off) ==
    /\ calling' = [active |-> FALSE, off |-> off]
    /\ ret' = [op |-> "each_batch", batch_size |-> batch_size, batches |-> batches,
               ok |-> ok, raised |-> raised]

\* each_batch from the record at off to its next call of the block or to
\* its return; delivered are the batches the block was given so far, raised
\* says that an earlier call of the block raised
EachBatchRuns(off, batch_size, batch, last_key, run_length, delivered, raised) ==
    LET r == EachBatchToCall(output_file, off, batch_size, batch, last_key,
                             run_length)
    IN  /\ IF r.kind \in {"call", "last"}
           THEN /\ calling' = [active |-> TRUE, off |-> r.off,
                               batch_size |-> batch_size, kind |-> r.kind,
                               current_batch |-> r.current_batch,
                               last_key |-> r.last_key, run_length |-> r.run_length,
                               delivered |-> Append(delivered, r.batch),
                               raised |-> raised, inner |-> "none"]
                /\ UNCHANGED ret
           ELSE EachBatchReturns(batch_size, delivered, r.kind = "end", raised, r.off)
        /\ UNCHANGED <<buffer_size_bytes, validator, current_batch, current_buffer_size,
                       temp_files, output_file, total_rows, admitted, add_calls,
                       positions_used, sorts, runs_written, runs_read, reading>>

\* Sorter::each_batch(batch_size) up to its first call of the block
EachBatchBegins(batch_size) ==
    /\ ~calling.active
    /\ sorts > 0
    /\ EachBatchRuns(rewind(calling.off), batch_size, <<>>, ZeroKey, 0, <<>>, FALSE)

\* the block ends, by returning or by raising: each_batch returns the
\* exception, or returns Ok(()) after the last yield, or goes on reading
BlockEnds(raises) ==
    /\ calling.active
    /\ IF CallFailed(raises)
       THEN /\ EachBatchReturns(calling.batch_size, calling.delivered, FALSE, TRUE,
                                calling.off)
            /\ UNCHANGED <<buffer_size_bytes, validator, current_batch,
                           current_buffer_size, temp_files, output_file, total_rows,
                           admitted, add_calls, positions_used, sorts, runs_written,
                           runs_read, reading>>
       ELSE IF calling.kind = "last"
       THEN /\ EachBatchReturns(calling.batch_size, calling.delivered, TRUE,
                                calling.raised \/ raises, calling.off)
            /\ UNCHANGED <<buffer_size_bytes, validator, current_batch,
                           current_buffer_size, temp_files, output_file, total_rows,
                           admitted, add_calls, positions_used, sorts, runs_written,
                           runs_read, reading>>
       ELSE EachBatchRuns(calling.off, calling.batch_size, calling.current_batch,
                          calling.last_key, calling.run_length, calling.delivered,
                          calling.raised \/ raises)

BlockReturns == BlockEnds(FALSE)

BlockRaises == BlockEnds(TRUE)

\* borrow_mut on a session that is lent: the call panics before it reads or
\* writes anything, which the block sees as an exception
BorrowFails(op) ==
    /\ calling' = [calling EXCEPT !.inner = op]
    /\ UNCHANGED <<buffer_size_bytes, validator, current_batch, current_buffer_size,
                   temp_files, output_file, total_rows, ret, admitted, add_calls,
                   positions_used, sorts, runs_written, runs_read, reading>>

\* the block calls add_row
AddRowInBlock(row, position) ==
    /\ calling.active
    /\ position \notin positions_used
    /\ IF Borrowed THEN BorrowFails("add_row")
       ELSE add_row(row, position, "ok") /\ UNCHANGED <<reading, calling>>

\* the block calls sort
SortInBlock ==
    /\ calling.active
    /\ IF Borrowed THEN BorrowFails("sort") ELSE sort("ok")

\* the block calls each_batch with a block of its own
EachBatchInBlock(batch_size) ==
    /\ calling.active
    /\ IF Borrowed THEN BorrowFails("each_batch") ELSE EachBatch(batch_size)

\* the block calls write_binary_postgres_file
WriteBinaryPostgresFileInBlock ==
    /\ calling.active
    /\ IF Borrowed THEN BorrowFails("write_binary_postgres_file")
       ELSE WriteBinaryPostgresFile

\* the block calls add_file: the file is opened and read before anything
\* borrows the session; the first record goes to add_row, the first parse
\* error to the validator, and a file without either ends with Ok(())
AddFileInBlock(events) ==
    /\ calling.active
    /\ IF events = <<>>
       THEN /\ calling' = [calling EXCEPT !.inner = "add_file returned"]
            /\ UNCHANGED <<buffer_size_bytes, validator, current_batch,
                           current_buffer_size, temp_files, output_file, total_rows,
                           ret, admitted, add_calls, positions_used, sorts,
                           runs_written, runs_read, reading>>
       ELSE IF Borrowed THEN BorrowFails("add_file")
       ELSE IF events[1].ok
       THEN add_row(events[1].row, 0, "ok") /\ UNCHANGED <<reading, calling>>
       ELSE UNCHANGED vars

CallbackNext ==
    \/ \E row \in Rows, position \in Positions : ~calling.active /\ AddRow(row, position)
    \/ ~calling.active /\ Sort
    \/ \E batch_size \in 1 .. MaxBatchSize : EachBatchBegins(batch_size)
    \/ BlockReturns
    \/ BlockRaises
    \/ \E row \in Rows, position \in Positions : AddRowInBlock(row, position)
    \/ SortInBlock
    \/ \E batch_size \in 1 .. MaxBatchSize : EachBatchInBlock(batch_size)
    \/ WriteBinaryPostgresFileInBlock
    \/ \E events \in BlockFiles : AddFileInBlock(events)

CallbackSpec == Init /\ [][CallbackNext]_vars

(***************************************************************************)
(* Key derivation on its own, for any source id, any list of key columns   *)
(* and any row: KeySpec opens a session with the configuration in ret and  *)
(* derives keys as add_row does (generate_targeting_key, then the KeyData  *)
(* with the caller's position).  ret.hashed is what the hasher was fed.    *)
(***************************************************************************)
\* "s" and "t"
KeySourceIds == {<<115>>, <<116>>}

\* the sequences of at most n elements of S
SeqsUpTo(S, n) == UNION {[1 .. k -> S] : k \in 0 .. n}

\* key column lists: indices inside and beyond the rows, in any order
KeyColumnLists == SeqsUpTo(0 .. MaxKeyRowLen, MaxKeyCols)

\* rows of "", "a", "b" and ",": a quoted CSV field may hold the comma
KeyRows == SeqsUpTo({<<>>, <<97>>, <<98>>, <<44>>}, MaxKeyRowLen)

\* a session without rows, budget or validator
EmptySession ==
    /\ buffer_size_bytes = 0
    /\ validator = [some |-> FALSE, rules |-> <<>>]
    /\ current_batch = <<>>
    /\ current_buffer_size = 0
    /\ temp_files = <<>>
    /\ output_file = <<>>
    /\ total_rows = 0
    /\ admitted = <<>>
    /\ add_calls = 0
    /\ positions_used = {}
    /\ sorts = 0
    /\ runs_written = <<>>
    /\ runs_read = <<>>
    /\ reading = NotReading
    /\ calling = NotCalling

\* Sorter::new(source_id, _, key_columns, None, 0)
KeyInit ==
    /\ \E sid \in KeySourceIds, cols \in KeyColumnLists :
           ret = [op |-> "new", source_id |-> sid, key_columns |-> cols]
    /\ EmptySession

\* the key add_row builds for (row, position): the hasher's input and the
\* position of the KeyData
GenerateTargetingKey(row, position) ==
    /\ ret' = [op          |-> "generate_targeting_key",
               source_id   |-> ret.source_id,
               key_columns |-> ret.key_columns,
               row         |-> row,
               position    |-> position,
               hashed      |-> ret.source_id \o HashInput(row, ret.key_columns)]
    /\ UNCHANGED session_vars

KeyNext == \E row \in KeyRows, position \in 0 .. 1 : GenerateTargetingKey(row, position)

KeySpec == KeyInit /\ [][KeyNext]_vars

(***************************************************************************)
(* BinaryCopyFileWriter on its own, for any list of column types and any   *)
(* row: RowSpec creates a writer, writes the header and calls write_row on *)
(* the stream that holds the header.  ret.before and ret.out are the bytes *)
(* of the stream before and after the call.                                *)
(***************************************************************************)
SqlTypes == {"VARCHAR", "TIMESTAMP"}

\* column type lists of a writer
TypeLists == SeqsUpTo(SqlTypes, MaxColumns)

\* "a" as a String, None as an Option<String>, a SystemTime
SqlValues == {SqlValue("VARCHAR", <<97>>), SqlNone("VARCHAR"),
              SqlValue("TIMESTAMP", TimestampToSql(1))}

\* BinaryCopyFileWriter::new(types)
RowInit ==
    /\ \E types \in TypeLists : ret = [op |-> "new", types |-> types]
    /\ EmptySession

\* write_header, then write_row(row)
WriteRow(row) ==
    /\ LET r == write_row_typed(ret.types, row)
       IN  ret' = [op |-> "write_row", types |-> ret.types, row |-> row,
                   before |-> write_header, out |-> write_header \o r.out,
                   ok |-> r.ok, error |-> r.error]
    /\ UNCHANGED session_vars

RowNext == \E row \in SeqsUpTo(SqlValues, MaxColumns) : WriteRow(row)

RowSpec == RowInit /\ [][RowNext]_vars

(***************************************************************************)
(* The geometry column on its own: GeoSpec creates a PostgresCopier with   *)
(* any geo_indexes and lets it build and write the COPY tuple of one       *)
(* record (ret.out is the tuple), and it encodes Geometry values, those    *)
(* Geometry::new builds and those with z or m set.                         *)
(***************************************************************************)
\* "", "x", "0", "1" and "-2"
GeoFields == {<<>>, <<120>>, <<48>>, <<49>>, <<45, 50>>}

\* rows of the fields above
GeoRows == SeqsUpTo(GeoFields, MaxGeoRowLen)

\* no geo columns, or a latitude and a longitude index inside or beyond the rows
GeoIndexes == {None} \cup {Some(<<lat, lon>>) : lat, lon \in 0 .. MaxGeoRowLen}

\* the doubles 0.0, 1.0 and -2.0
GeoDoubles == {F64Bytes(FALSE, 0), F64Bytes(FALSE, 1), F64Bytes(TRUE, 2)}

OptDoubles == {None} \cup {Some(d) : d \in GeoDoubles}

Srids == {None, Some(4326)}

\* PostgresCopier::new(_, geo_indexes, source_key)
GeoInit ==
    /\ \E geo \in GeoIndexes : ret = [op |-> "new", geo_indexes |-> geo]
    /\ EmptySession

\* one turn of copy's loop: iter_records' item for a record of the row, and
\* the tuple write_row writes for it
CopyRecord(row) ==
    /\ LET record == [key    |-> [value |-> generate_targeting_key(row), position |-> 0],
                      record |-> row]
           item   == iter_item(ret.geo_indexes, record)
       IN  ret' = [op |-> "copy_record", geo_indexes |-> ret.geo_indexes,
                   row |-> row, item |-> item, out |-> write_row(item, 1000)]
    /\ UNCHANGED session_vars

\* Geometry::new(x, y, srid), then its type_id and its to_sql
GeometryNew(x, y, srid) ==
    /\ LET g == Geometry_new(x, y, srid)
       IN  ret' = [op |-> "Geometry::new", geo_indexes |-> ret.geo_indexes,
                   g |-> g, type_id |-> type_id(g), ewkb |-> write_ewkb(g)]
    /\ UNCHANGED session_vars

\* type_id and to_sql of any Geometry
GeometryToSql(g) ==
    /\ ret' = [op |-> "to_sql", geo_indexes |-> ret.geo_indexes,
               g |-> g, type_id |-> type_id(g), ewkb |-> write_ewkb(g)]
    /\ UNCHANGED session_vars

GeoNext ==
    \/ \E row \in GeoRows : CopyRecord(row)
    \/ \E x, y \in GeoDoubles, srid \in Srids : GeometryNew(x, y, srid)
    \/ \E x, y \in GeoDoubles, srid \in Srids, z, m \in OptDoubles :
           GeometryToSql([srid |-> srid, x |-> x, y |-> y, z |-> z, m |-> m])

GeoSpec == GeoInit /\ [][GeoNext]_vars

(***************************************************************************)
(* PostgresCopier::copy on any input file: CopySpec hands it a file of     *)
(* records that can be cut short at any byte or hold a record whose        *)
(* payload does not decode, and an output that can stop accepting bytes.   *)
(***************************************************************************)
\* the records of ["a", ""] at position 0 and of ["b", "x"] at position 1
CopyRecords ==
    { [key |-> [value |-> generate_targeting_key(<< <<97>>, <<>> >>), position |-> 0],
       record |-> << <<97>>, <<>> >>],
      [key |-> [value |-> generate_targeting_key(<< <<98>>, <<120>> >>), position |-> 1],
       record |-> << <<98>>, <<120>> >>] }

\* a record whose length prefix announces one byte less than its encoding:
\* the payload read for it does not decode
ShortRecordBytes(r) ==
    LET rec == EncodeSortRecord(r)
    IN  to_le_bytes(Len(rec) - 1, 4) \o rec

\* the files: records as sort writes them, with at most one that does not
\* decode, cut at any length
CopyInputs ==
    LET whole  == {write_records(rs).bytes : rs \in SeqsUpTo(CopyRecords, MaxCopyRecords)}
        broken == {write_records(rs).bytes \o ShortRecordBytes(r) \o OutRecordBytes(r) :
                       rs \in SeqsUpTo(CopyRecords, MaxCopyRecords - 1), r \in CopyRecords}
    IN  UNION {{SubSeq(f, 1, n) : n \in 0 .. Len(f)} : f \in whole} \cup broken

\* the writes of the output that can fail: none, or that of row k
WriteFailures == {None} \cup {Some(k) : k \in 0 .. MaxCopyRecords - 1}

\* PostgresCopier::new(input_file, None, source_key)
CopyInit ==
    /\ \E file \in CopyInputs : ret = [op |-> "new", input |-> file]
    /\ EmptySession

\* PostgresCopier::copy(output_file_path)
Copy(fails_at) ==
    /\ LET r == copy_to(ret.input, 1000, fails_at)
       IN  ret' = [op |-> "copy", input |-> ret.input, fails_at |-> fails_at,
                   file |-> r.file, items |-> r.items, ok |-> r.ok,
                   error |-> r.error]
    /\ UNCHANGED session_vars

CopyNext == \E fails_at \in WriteFailures : Copy(fails_at)

CopySpec == CopyInit /\ [][CopyNext]_vars

(***************************************************************************)
(* validate_csv: the rules of a pattern applied to the records of a CSV    *)
(* file, the counters it returns and the error log it writes.  ValidateSpec *)
(* reads a file one record at a time; ret holds the call's local state:    *)
(* the rules, the headers, whether an error log was asked for, the records *)
(* read so far, the counters, the bytes of the log and how the call stands *)
(* ("running", then "Ok" or "Err").                                        *)
(***************************************************************************)
\* b"Error Message,Row,Column\n"
LOG_HEADER ==
    <<69, 114, 114, 111, 114, 32, 77, 101, 115, 115, 97, 103, 101, 44, 82,
      111, 119, 44, 67, 111, 108, 117, 109, 110, 10>>

\* " does not include a valid domain"
URL_MESSAGE ==
    <<32, 100, 111, 101, 115, 32, 110, 111, 116, 32, 105, 110, 99, 108,
      117, 100, 101, 32, 97, 32, 118, 97, 108, 105, 100, 32, 100, 111,
      109, 97, 105, 110>>

\* " does not include a valid link protocol"
PROTOCOL_MESSAGE ==
    <<32, 100, 111, 101, 115, 32, 110, 111, 116, 32, 105, 110, 99, 108,
      117, 100, 101, 32, 97, 32, 118, 97, 108, 105, 100, 32, 108, 105,
      110, 107, 32, 112, 114, 111, 116, 111, 99, 111, 108>>

RECURSIVE ToDecimal(_)
\* format!("{}", n) of an unsigned integer
ToDecimal(n) ==
    IF n < 10 THEN <<48 + n>> ELSE ToDecimal(n \div 10) \o <<48 + (n % 10)>>

\* Url::parse(field).is_ok() for the fields of this model: a URL starts with
\* a scheme, an ASCII letter followed by letters, digits, "+", "-" or "."
\* up to a ":"; anything else is a relative reference, which parse refuses
\* without a base.  (No field of the model has a special scheme such as
\* http, for which the host is checked too.)
UrlParses(field) ==
    LET letters == (65 .. 90) \cup (97 .. 122)
        inside  == letters \cup (48 .. 57) \cup {43, 45, 46}
    IN  \E i \in 2 .. Len(field) :
            /\ field[i] = 58
            /\ field[1] \in letters
            /\ \A j \in 2 .. i - 1 : field[j] \in inside

\* an error line with the 0-based index of the row
error_line_ZeroBasedRow(field, message, row_idx, column_name) ==
    field \o message \o <<44>> \o ToDecimal(row_idx) \o <<44>> \o column_name \o <<10>>

\* format!("{}<message>,{},{}\n", field, row_idx + 1, column_name)
error_line(field, message, row_idx, column_name) ==
    field \o message \o <<44>> \o ToDecimal(row_idx + 1) \o <<44>> \o column_name \o <<10>>

\* "Unknown"
UNKNOWN_COLUMN == <<85, 110, 107, 110, 111, 119, 110>>

RECURSIVE ValidateColumns_PerField(_, _, _, _, _, _)
\* a rules loop that counts every failing field, not every failing row
ValidateColumns_PerField(rules, headers, record, row_idx, col_idx, acc) ==
    IF col_idx >= Len(rules) THEN acc
    ELSE LET field == record[col_idx + 1]
             rule  == rules[col_idx + 1]
             column_name == IF col_idx < Len(headers) THEN headers[col_idx + 1]
                            ELSE UNKNOWN_COLUMN
             fails == /\ field # <<>>
                      /\ \/ rule = "Url" /\ ~UrlParses(field)
                         \/ rule = "Protocol" /\ ~ContainsProtocol(field)
             message == IF rule = "Url" THEN URL_MESSAGE ELSE PROTOCOL_MESSAGE
         IN  ValidateColumns_PerField(rules, headers, record, row_idx, col_idx + 1,
                 IF col_idx >= Len(record) \/ ~fails THEN acc
                 ELSE [url      |-> acc.url + (IF rule = "Url" THEN 1 ELSE 0),
                       protocol |-> acc.protocol + (IF rule = "Protocol" THEN 1 ELSE 0),
                       failed_url      |-> acc.failed_url \/ rule = "Url",
                       failed_protocol |-> acc.failed_protocol \/ rule = "Protocol",
                       lines |-> acc.lines
                                 \o error_line(field, message, row_idx, column_name)])

RECURSIVE ValidateColumns(_, _, _, _, _, _)
\* the loop over the rules for one record, from column col_idx on: acc holds
\* the increments of the two counters, the row's failed_url and
\* failed_protocol flags and the lines for the error log
ValidateColumns(rules, headers, record, row_idx, col_idx, acc) ==
    IF col_idx >= Len(rules) THEN acc
    ELSE LET field == record[col_idx + 1]
             rule  == rules[col_idx + 1]
             column_name == IF col_idx < Len(headers) THEN headers[col_idx + 1]
                            ELSE UNKNOWN_COLUMN
             fails == /\ field # <<>>
                      /\ \/ rule = "Url" /\ ~acc.failed_url /\ ~UrlParses(field)
                         \/ rule = "Protocol" /\ ~acc.failed_protocol
                                              /\ ~ContainsProtocol(field)
             message == IF rule = "Url" THEN URL_MESSAGE ELSE PROTOCOL_MESSAGE
         IN  ValidateColumns(rules, headers, record, row_idx, col_idx + 1,
                 IF col_idx >= Len(record) \/ ~fails THEN acc
                 ELSE [url      |-> acc.url + (IF rule = "Url" THEN 1 ELSE 0),
                       protocol |-> acc.protocol + (IF rule = "Protocol" THEN 1 ELSE 0),
                       failed_url      |-> acc.failed_url \/ rule = "Url",
                       failed_protocol |-> acc.failed_protocol \/ rule = "Protocol",
                       lines |-> acc.lines
                                 \o error_line(field, message, row_idx, column_name)])

\* "", "x", "a:b", "://" and ",": no field, one that is neither a URL nor
\* has a protocol, a URL without "://", "://" without a scheme, and a field
\* the CSV writer has to quote
ValidateFields == {<<>>, <<120>>, <<97, 58, 98>>, <<58, 47, 47>>, <<44>>}

\* the header rows: "h" and "h,i"
ValidateHeaders == {<< <<104>> >>, << <<104>>, <<105>> >>}

\* the patterns: nil, :url and :protocol in any order
ValidatePatterns == SeqsUpTo({"Ignore", "Url", "Protocol"}, MaxValidateColumns)

\* csv::Writer::write_field with QuoteStyle::Necessary: a field that holds
\* the delimiter, a quote or a line break is quoted, its quotes doubled
WriteField(field) ==
    LET special == {10, 13, 34, 44}
        doubled == Concat([i \in 1 .. Len(field) |->
                              IF field[i] = 34 THEN <<34, 34>> ELSE <<field[i]>>])
    IN  IF \E i \in 1 .. Len(field) : field[i] \in special
        THEN <<34>> \o doubled \o <<34>>
        ELSE field

\* csv::Writer::write_record: the fields with commas between them and a
\* line feed; the record of one empty field is written as two quotes
WriteRecord(record) ==
    IF record = << <<>> >> THEN <<34, 34, 10>>
    ELSE Concat([i \in 1 .. Len(record) |->
                    (IF i > 1 THEN <<44>> ELSE <<>>) \o WriteField(record[i])])
         \o <<10>>

\* the elements of a sequence from the last to the first
Reversed(seq) == [i \in 1 .. Len(seq) |-> seq[Len(seq) + 1 - i]]

\* a chunk written in the order it was read
write_chunk_to_temp_file_Forward(chunk) ==
    Concat([i \in 1 .. Len(chunk) |-> WriteRecord(chunk[i])])

\* write_chunk_to_temp_file: the bytes of the temporary file, the records
\* of the chunk from the last to the first
write_chunk_to_temp_file(chunk) ==
    Concat([i \in 1 .. Len(chunk) |-> WriteRecord(Reversed(chunk)[i])])

\* create_reversed_output: the bytes of the output file, the headers and
\* then every temporary file from the last to the first
create_reversed_output(headers, files) ==
    WriteRecord(headers) \o Concat(Reversed(files))

\* validate_csv up to its loop: the pattern parsed, the file opened, the
\* error log created with its header, the headers read; reversed says that
\* a reversed output path was given, out is the file at that path
ValidateInit ==
    /\ \E rules \in ValidatePatterns, headers \in ValidateHeaders,
          error_log \in BOOLEAN, reversed \in BOOLEAN :
           ret = [op |-> "validate_csv", rules |-> rules, headers |-> headers,
                  error_log |-> error_log, rows |-> <<>>, row_count |-> 0,
                  url |-> 0, protocol |-> 0,
                  log |-> IF error_log THEN LOG_HEADER ELSE <<>>,
                  reversed |-> reversed, temp_files |-> <<>>,
                  current_chunk |-> <<>>, current_chunk_size |-> 0, out |-> <<>>,
                  status |-> "running"]
    /\ EmptySession

\* one turn of the loop for a record the reader returned
ValidateRecord(record) ==
    /\ ret.status = "running"
    /\ Len(ret.rows) < MaxValidateRows
    /\ Len(record) = Len(ret.headers)
    /\ LET row_idx == Len(ret.rows)
           short   == Len(record) < Len(ret.rules)
           ignored == \A i \in 1 .. Len(ret.rules) : ret.rules[i] = "Ignore"
           r == IF short \/ ignored
                THEN [url |-> 0, protocol |-> 0, lines |-> <<>>]
                ELSE ValidateColumns(ret.rules, ret.headers, record, row_idx, 0,
                                     [url |-> 0, protocol |-> 0,
                                      failed_url |-> FALSE, failed_protocol |-> FALSE,
                                      lines |-> <<>>])
           record_size == SumLen(record) + Len(record)
           chunk   == Append(ret.current_chunk, record)
           size    == ret.current_chunk_size + record_size
           full    == size >= CHUNK_SIZE_BYTES
       IN  ret' = [ret EXCEPT !.rows      = Append(@, record),
                              !.temp_files =
                                  IF ret.reversed /\ full
                                  THEN Append(@, write_chunk_to_temp_file(chunk))
                                  ELSE @,
                              !.current_chunk =
                                  IF ret.reversed /\ ~full THEN chunk ELSE <<>>,
                              !.current_chunk_size =
                                  IF ret.reversed /\ ~full THEN size ELSE 0,
                              !.row_count = @ + 1,
                              !.url       = @ + r.url,
                              !.protocol  = @ + r.protocol,
                              !.log       = IF ret.error_log THEN @ \o r.lines ELSE @,
                              !.status    = IF short THEN "Err" ELSE "running"]
    /\ UNCHANGED session_vars

\* the reader returned an error for the next record: validate_csv returns it
ValidateReadError ==
    /\ ret.status = "running"
    /\ ret' = [ret EXCEPT !.status = "Err"]
    /\ UNCHANGED session_vars

\* the reader is at the end of the file: the log is flushed, the remaining
\* chunk is written, the reversed output is put together and the counters
\* are returned
ValidateEnd ==
    /\ ret.status = "running"
    /\ LET files == IF ret.reversed /\ ret.current_chunk # <<>>
                    THEN Append(ret.temp_files,
                                write_chunk_to_temp_file(ret.current_chunk))
                    ELSE ret.temp_files
       IN  ret' = [ret EXCEPT !.status = "Ok",
                              !.temp_files = files,
                              !.out = IF ret.reversed
                                      THEN create_reversed_output(ret.headers, files)
                                      ELSE @]
    /\ UNCHANGED session_vars

ValidateNext ==
    \/ \E record \in SeqsUpTo(ValidateFields, MaxValidateColumns) : ValidateRecord(record)
    \/ ValidateReadError
    \/ ValidateEnd

ValidateSpec == ValidateInit /\ [][ValidateNext]_vars

(***************************************************************************)
(* dedupe_csv (csv_validator/src/generator.rs): the input is cut into runs *)
(* of records sorted by (key_hash, key, line_no descending), the runs are  *)
(* merged through a BinaryHeap and at most keep records per key are        *)
(* written.  ret holds the call: its arguments, the records read so far,   *)
(* the run files and the output file.  key_hash is DefaultHasher's value   *)
(* of the key, which the model does not compute: DedupeInit draws it from  *)
(* every function of the keys, those with collisions included.             *)
(***************************************************************************)
\* the header row "k,v" and the rows of a key "a" or "b" and a value "x" or "y"
DedupeHeaders == << <<107>>, <<118>> >>

DedupeKeys == { << <<97>> >>, << <<98>> >> }

DedupeRows == {<<k, v>> : k \in {<<97>>, <<98>>}, v \in {<<120>>, <<121>>}}

RECURSIVE CmpKeys(_, _)
\* Vec<String>::cmp: element by element, the shorter vector first (the
\* strings of the model's keys have one length)
CmpKeys(k1, k2) ==
    IF k1 = <<>> /\ k2 = <<>> THEN 0
    ELSE IF k1 = <<>> THEN -1
    ELSE IF k2 = <<>> THEN 1
    ELSE LET c == CmpBytes(Head(k1), Head(k2))
         IN  IF c # 0 THEN c ELSE CmpKeys(Tail(k1), Tail(k2))

\* HeapItem::cmp, which is also the order make_run sorts its buffer by:
\* key_hash, then key, then line_no descending
HeapItemCmp(r1, r2) ==
    IF r1.key_hash < r2.key_hash THEN -1
    ELSE IF r1.key_hash > r2.key_hash THEN 1
    ELSE LET c == CmpKeys(r1.key, r2.key)
         IN  IF c # 0 THEN c
             ELSE IF r1.line_no > r2.line_no THEN -1
             ELSE IF r1.line_no < r2.line_no THEN 1
             ELSE 0

\* RunRec::estimated_size: size_of::<String>() is 24, size_of::<u64>() is 8
RunRecSize(rec) ==
    (SumLen(rec.record) + 24 * Len(rec.record))
    + (SumLen(rec.key) + 24 * Len(rec.key)) + 8 * 2

\* bincode::serialize_into of a RunRec
EncodeRunRec(rec) ==
    to_le_bytes(rec.key_hash, 8)
    \o to_le_bytes(Len(rec.key), 8) \o EncodeStrings(rec.key)
    \o to_le_bytes(rec.line_no, 8)
    \o to_le_bytes(Len(rec.record), 8) \o EncodeStrings(rec.record)

RECURSIVE EndOfStrings(_, _, _)
\* the offset after n strings from offset off on, or -1 if they are not there
EndOfStrings(bs, off, n) ==
    IF n = 0 THEN off
    ELSE IF ~CanRead(bs, off, 8) \/ ~Below65536(Take(bs, off, 8)) THEN -1
    ELSE LET len == from_le_bytes(Take(bs, off, 8))
         IN  IF ~CanRead(bs, off + 8, len) THEN -1
             ELSE EndOfStrings(bs, off + 8 + len, n - 1)

\* a Vec<String> at offset off: its strings and the offset after it, or
\* ok = FALSE when the bytes are not there
DecodeVec(bs, off) ==
    IF ~CanRead(bs, off, 8) \/ ~Below65536(Take(bs, off, 8))
    THEN [ok |-> FALSE, strings |-> <<>>, off |-> off]
    ELSE LET n == from_le_bytes(Take(bs, off, 8))
             end == EndOfStrings(bs, off + 8, n)
         IN  IF end < 0 THEN [ok |-> FALSE, strings |-> <<>>, off |-> off]
             ELSE [ok |-> TRUE, strings |-> DecodeStrings(bs, off + 8, n), off |-> end]

\* bincode::deserialize_from::<_, RunRec> at offset off; RunReader takes any
\* error for the end of the run
DecodeRunRec(bs, off) ==
    LET none == [some |-> FALSE, rec |-> <<>>, off |-> off]
    IN  IF ~CanRead(bs, off, 8) \/ ~Below65536(Take(bs, off, 8)) THEN none
        ELSE LET key == DecodeVec(bs, off + 8)
             IN  IF ~key.ok THEN none
                 ELSE IF ~CanRead(bs, key.off, 8) \/ ~Below65536(Take(bs, key.off, 8))
                 THEN none
                 ELSE LET record == DecodeVec(bs, key.off + 8)
                      IN  IF ~record.ok THEN none
                          ELSE [some |-> TRUE,
                                rec  |-> [key_hash |-> from_le_bytes(Take(bs, off, 8)),
                                          key      |-> key.strings,
                                          line_no  |-> from_le_bytes(Take(bs, key.off, 8)),
                                          record   |-> record.strings],
                                off  |-> record.off]

RECURSIVE FillBuffer(_, _, _, _, _, _)
\* make_run's loop: records are read while the buffer's estimated size is
\* below the limit; line numbers come from LINE_COUNTER, which counts the
\* records read so far; the key is the value of column 0
FillBuffer(input, next, buffer, size, limit, hash) ==
    IF ~(size < limit) \/ next >= Len(input)
    THEN [buffer |-> buffer, next |-> next]
    ELSE LET record == input[next + 1]
             key == <<Col(record, 0)>>
             entry == [key_hash |-> hash[key], key |-> key, line_no |-> next,
                       record |-> record]
         IN  FillBuffer(input, next + 1, Append(buffer, entry),
                        size + RunRecSize(entry), limit, hash)

\* sort_unstable_by of make_run: no two records compare equal, so the
\* order is one
SortBuffer(buffer) ==
    LET n == Len(buffer)
        rank(i) == Cardinality({j \in 1 .. n : HeapItemCmp(buffer[j], buffer[i]) < 0})
    IN  [k \in 1 .. n |-> buffer[CHOOSE i \in 1 .. n : rank(i) = k - 1]]

\* BinaryHeap::pop on HeapItems: the greatest by HeapItem::cmp
HeapItemPop(heap) == CHOOSE h \in heap : \A g \in heap : HeapItemCmp(h.rec, g.rec) >= 0

RECURSIVE MergeWithLimit(_, _, _, _, _)
\* the loop of merge_runs_with_limit: readers holds each run file and the
\* offset of its reader, key_counts the records written per key, written
\* the records written; the periodic clearing of key_counts (every 100,000
\* changes of key) is left out
MergeWithLimit(heap, readers, key_counts, written, keep) ==
    IF heap = {} THEN written
    ELSE LET top == HeapItemPop(heap)
             rec == top.rec
             emit == key_counts[rec.key] < keep
             nxt == DecodeRunRec(readers[top.src + 1].file, readers[top.src + 1].off)
         IN  MergeWithLimit(
                 (heap \ {top}) \cup (IF nxt.some THEN {[rec |-> nxt.rec, src |-> top.src]}
                                      ELSE {}),
                 [readers EXCEPT ![top.src + 1].off = nxt.off],
                 IF emit THEN [key_counts EXCEPT ![rec.key] = @ + 1] ELSE key_counts,
                 IF emit THEN Append(written, rec.record) ELSE written,
                 keep)

\* merge_runs_with_limit: the headers, then the merge of the runs, each run
\* file opened by its path and read from its first byte
merge_runs_with_limit(runs, headers, keep) ==
    LET first == [i \in 1 .. Len(runs) |-> DecodeRunRec(runs[i], 0)]
        readers == [i \in 1 .. Len(runs) |-> [file |-> runs[i], off |-> first[i].off]]
        heap == {[rec |-> first[i].rec, src |-> i - 1] :
                     i \in {j \in 1 .. Len(runs) : first[j].some}}
        written == MergeWithLimit(heap, readers, [k \in DedupeKeys |-> 0], <<>>, keep)
    IN  [out |-> WriteRecord(headers)
                 \o Concat([i \in 1 .. Len(written) |-> WriteRecord(written[i])]),
         records_written |-> Len(written)]

\* dedupe_csv up to its first make_run: the counter reset, the input
\* opened, the headers read
DedupeInit ==
    /\ \E input \in SeqsUpTo(DedupeRows, MaxDedupeRows), keep \in 0 .. MaxKeep,
          buffer_size_mb \in 1 .. MaxDedupeBufferMb, hash \in [DedupeKeys -> 0 .. 1] :
           ret = [op |-> "dedupe_csv", input |-> input, keep |-> keep,
                  buffer_size_bytes |-> buffer_size_mb * DedupeBytesPerMb,
                  hash |-> hash, next |-> 0, runs |-> <<>>, out |-> <<>>,
                  records_written |-> 0, status |-> "running"]
    /\ EmptySession

\* a make_run that finds records: they are sorted and written to a run file
DedupeMakeRun ==
    /\ ret.status = "running"
    /\ ret.next < Len(ret.input)
    /\ LET b == FillBuffer(ret.input, ret.next, <<>>, 0, ret.buffer_size_bytes, ret.hash)
           sorted == SortBuffer(b.buffer)
       IN  ret' = [ret EXCEPT
                      !.next = b.next,
                      !.runs = Append(@, Concat([i \in 1 .. Len(sorted) |->
                                                    EncodeRunRec(sorted[i])]))]
    /\ UNCHANGED session_vars

\* the make_run that finds no record, then merge_runs_with_limit
DedupeMerge ==
    /\ ret.status = "running"
    /\ ret.next = Len(ret.input)
    /\ LET m == merge_runs_with_limit(ret.runs, DedupeHeaders, ret.keep)
       IN  ret' = [ret EXCEPT !.out = m.out, !.records_written = m.records_written,
                              !.status = "Ok"]
    /\ UNCHANGED session_vars

DedupeNext == DedupeMakeRun \/ DedupeMerge

DedupeSpec == DedupeInit /\ [][DedupeNext]_vars

(***************************************************************************)
(* Vocabulary of the properties.                                           *)
(***************************************************************************)
RECURSIVE ReadOutput(_, _)
\* the records a reader of the intermediate file decodes, in file order, up
\* to the end of the file or to the first record it cannot read or decode
ReadOutput(file, off) ==
    IF ~CanRead(file, off, 4) THEN <<>>
    ELSE LET len == from_le_bytes(Take(file, off, 4))
         IN  IF ~CanReadRecord(file, off) THEN <<>>
             ELSE IF ~CanDecodeSortRecord(Take(file, off + 4, len)) THEN <<>>
             ELSE <<DecodeSortRecord(Take(file, off + 4, len))>>
                  \o ReadOutput(file, off + 4 + len)

OutputRecords == ReadOutput(output_file, 0)

\* the items of all batches of the last each_batch call, in delivery order
Delivered == Concat(ret.batches)

\* the targeting keys of the admitted rows
AdmittedKeys == {admitted[i].key.value : i \in 1 .. Len(admitted)}

\* the positions of the admitted rows with key k
PositionsOf(k) ==
    {admitted[i].key.position : i \in {j \in 1 .. Len(admitted) : admitted[j].key.value = k}}

\* the positions of the delivered items with key k, in delivery order
DeliveredPositions(k) ==
    LET HasKey(item) == item.key_hex = HexEncode(k)
        items == SelectSeq(Delivered, HasKey)
    IN  [i \in 1 .. Len(items) |-> items[i].position]

\* the number of entries of seq that satisfy having key k
CountKey(keys, k) == Cardinality({i \in 1 .. Len(keys) : keys[i] = k})

RECURSIVE ReadRun(_, _)
\* the records a reader of a run file decodes, in file order
ReadRun(file, off) ==
    LET r == ReadRunRecord(file, off)
    IN  IF r.eof THEN <<>>
        ELSE <<DecodeSortRecord(r.record_bytes)>> \o ReadRun(file, r.off)

RECURSIVE SumEstimates(_)
\* the summed estimated size of the rows of a batch
SumEstimates(batch) ==
    IF batch = <<>> THEN 0
    ELSE KeyDataSize + SumLen(Head(batch).record) + SumEstimates(Tail(batch))

RECURSIVE from_be_bytes(_)
from_be_bytes(bs) ==
    IF bs = <<>> THEN 0 ELSE 256 * from_be_bytes(SubSeq(bs, 1, Len(bs) - 1)) + bs[Len(bs)]

RECURSIVE ReadCopyColumns(_, _, _, _)
\* a reader of a binary COPY stream: n columns from offset off on, each a
\* 32-bit length and that many bytes, or the length -1 and nothing
ReadCopyColumns(bs, off, n, cols) ==
    IF n = 0 THEN [ok |-> TRUE, cols |-> cols, off |-> off]
    ELSE IF ~CanRead(bs, off, 4) THEN [ok |-> FALSE, cols |-> cols, off |-> off]
    ELSE IF Take(bs, off, 4) = <<255, 255, 255, 255>>
         THEN ReadCopyColumns(bs, off + 4, n - 1,
                              Append(cols, [null |-> TRUE, bytes |-> <<>>]))
    ELSE LET len == from_be_bytes(Take(bs, off, 4))
         IN  IF ~CanRead(bs, off + 4, len)
             THEN [ok |-> FALSE, cols |-> cols, off |-> off]
             ELSE ReadCopyColumns(bs, off + 4 + len, n - 1,
                                  Append(cols, [null |-> FALSE,
                                                bytes |-> Take(bs, off + 4, len)]))

RECURSIVE ReadCopyTuples(_, _, _)
\* the tuples of a binary COPY stream from offset off up to the trailer; end
\* is the offset after the trailer
ReadCopyTuples(bs, off, tuples) ==
    IF ~CanRead(bs, off, 2) THEN [ok |-> FALSE, tuples |-> tuples, end |-> off]
    ELSE IF Take(bs, off, 2) = <<255, 255>>
         THEN [ok |-> TRUE, tuples |-> tuples, end |-> off + 2]
    ELSE LET r == ReadCopyColumns(bs, off + 2, from_be_bytes(Take(bs, off, 2)), <<>>)
         IN  IF ~r.ok \/ r.off <= off THEN [ok |-> FALSE, tuples |-> tuples, end |-> off]
             ELSE ReadCopyTuples(bs, r.off, Append(tuples, r.cols))

\* the elements of a one-dimensional array without nulls, after its 20-byte
\* header
ReadArrayElements(bs) ==
    IF ~CanRead(bs, 0, 20) THEN [ok |-> FALSE, cols |-> <<>>, off |-> 0]
    ELSE ReadCopyColumns(bs, 20, from_be_bytes(Take(bs, 12, 4)), <<>>)

C2_SortKeepsEveryRow ==
    sorts > 0 =>
        /\ total_rows = Len(admitted)
        /\ ret.op = "sort" => ret.total_rows = Len(admitted)
        /\ Len(OutputRecords) = Len(admitted)
        /\ \A r \in {admitted[i] : i \in 1 .. Len(admitted)} :
               Cardinality({i \in 1 .. Len(OutputRecords) : OutputRecords[i] = r})
               = Cardinality({i \in 1 .. Len(admitted) : admitted[i] = r})

(***************************************************************************)
(* C3.  For every TargetingKey k, the batches of one each_batch call hold  *)
(* at most max_per_key rows with key k.  Stated for batch sizes of 1 and   *)
(* more.                                                                   *)
(***************************************************************************)
C3_CapPerKey ==
    (ret.op = "each_batch" /\ ret.batch_size >= 1) =>
        \A k \in AdmittedKeys :
            Len(DeliveredPositions(k)) <= DEFAULT_MAX_TARGETING_KEY_ROWS

\* batches of a file that holds more than max_per_key records of one key
\* and a record of another key
C3_Witness ==
    /\ ret.op = "each_batch"
    /\ ret.batch_size >= 1
    /\ \E k \in AdmittedKeys :
           /\ CountKey([i \in 1 .. Len(OutputRecords) |-> OutputRecords[i].key.value], k)
              > DEFAULT_MAX_TARGETING_KEY_ROWS
           /\ Len(DeliveredPositions(k)) = DEFAULT_MAX_TARGETING_KEY_ROWS
    /\ Cardinality({Delivered[i].key_hex : i \in 1 .. Len(Delivered)}) >= 2

(***************************************************************************)
(* C4.  When more than max_per_key admitted rows share a key k, the rows   *)
(* with key k that each_batch emits are exactly the max_per_key rows with  *)
(* the largest positions, in descending position order.  Stated for batch *)
(* sizes of 1 and more.                                                    *)
(***************************************************************************)
C4_MostRecentKept ==
    (ret.op = "each_batch" /\ ret.batch_size >= 1) =>
        \A k \in AdmittedKeys :
            Cardinality(PositionsOf(k)) > DEFAULT_MAX_TARGETING_KEY_ROWS =>
                LET e == DeliveredPositions(k)
                    top == {p \in PositionsOf(k) :
                               Cardinality({q \in PositionsOf(k) : q > p})
                               < DEFAULT_MAX_TARGETING_KEY_ROWS}
                IN  /\ Len(e) = DEFAULT_MAX_TARGETING_KEY_ROWS
                    /\ {e[i] : i \in 1 .. Len(e)} = top
                    /\ \A i \in 1 .. Len(e) - 1 : e[i] > e[i + 1]

(***************************************************************************)
(* C5.  The cap is applied on the binary COPY path too: for every          *)
(* TargetingKey k, the file write_binary_postgres_file writes holds at     *)
(* most max_per_key rows with key k.                                       *)
(***************************************************************************)
C5_CopyCapped ==
    ret.op = "write_binary_postgres_file" =>
        \A k \in AdmittedKeys :
            CountKey([i \in 1 .. Len(ret.items) |-> ret.items[i].target_key], k)
            <= DEFAULT_MAX_TARGETING_KEY_ROWS

(***************************************************************************)
(* C6.  each_batch never closes a batch mid-key: a batch that is not the   *)
(* last holds at least batch_size items and is followed by a record of     *)
(* another key, so no two delivered batches hold rows of the same key.     *)
(* Stated for batch sizes of 1 and more.                                   *)
(***************************************************************************)
C6_NoKeyAcrossBatches ==
    (ret.op = "each_batch" /\ ret.batch_size >= 1) =>
        LET b == ret.batches
        IN  /\ \A i \in 1 .. Len(b) - 1 :
                   /\ Len(b[i]) >= ret.batch_size
                   /\ b[i] # <<>> =>
                          b[i][Len(b[i])].key_hex # b[i + 1][1].key_hex
            /\ \A i, j \in 1 .. Len(b) :
                   i < j =>
                       \A x \in 1 .. Len(b[i]), y \in 1 .. Len(b[j]) :
                           b[i][x].key_hex # b[j][y].key_hex

\* two batches or more, the first of them longer than batch_size because
\* the records of its last key went on
C6_Witness ==
    /\ ret.op = "each_batch"
    /\ ret.batch_size >= 1
    /\ Len(ret.batches) >= 2
    /\ Len(ret.batches[1]) > ret.batch_size

(***************************************************************************)
(* C7.  When every admitted row fit in memory (no run file was written),   *)
(* each_batch after sort yields the rows in ascending TargetingKey order   *)
(* and, within one key, in descending position order.                      *)
(***************************************************************************)
C7_InMemoryOrder ==
    (ret.op = "each_batch" /\ runs_written = <<>>) =>
        /\ ret.ok
        /\ \A i \in 1 .. Len(Delivered) - 1 :
               LET c == CmpBytes(Delivered[i].key_hex, Delivered[i + 1].key_hex)
               IN  \/ c < 0
                   \/ c = 0 /\ Delivered[i].position > Delivered[i + 1].position

\* an in-memory session whose batches hold two rows of one key and a row of
\* another key
C7_Witness ==
    /\ ret.op = "each_batch"
    /\ runs_written = <<>>
    /\ Len(Delivered) >= 3
    /\ \E i, j \in 1 .. Len(Delivered) :
           i < j /\ Delivered[i].key_hex = Delivered[j].key_hex
    /\ \E i, j \in 1 .. Len(Delivered) : Delivered[i].key_hex # Delivered[j].key_hex

(***************************************************************************)
(* C8.  The file_count sort reports equals the number of run files that    *)
(* sort merges, the run written from the remaining batch included.         *)
(***************************************************************************)
C8_FileCountIsRunsMerged == ret.op = "sort" => ret.file_count = ret.merged

(***************************************************************************)
(* C9.  On a session in which no row was admitted, sort returns            *)
(* total_rows = 0 and file_count = 0, and write_binary_postgres_file       *)
(* writes exactly the 19-byte header and the 2-byte trailer.               *)
(***************************************************************************)
C9_EmptySession ==
    admitted = <<>> =>
        /\ ret.op = "sort" => ret.total_rows = 0 /\ ret.file_count = 0
        /\ ret.op = "write_binary_postgres_file" =>
               /\ Len(ret.file) = 21
               /\ ret.file = <<80, 71, 67, 79, 80, 89, 10, 255, 13, 10, 0,
                               0, 0, 0, 0, 0, 0, 0, 0, 255, 255>>

\* the COPY file of a sorted session without rows
C9_Witness ==
    /\ admitted = <<>>
    /\ sorts > 0
    /\ ret.op = "write_binary_postgres_file"

(***************************************************************************)
(* C10.  Write-then-read of a run file is lossless: the records the merge  *)
(* reads from every run file are the records make_run wrote to it, in the  *)
(* same order, with the same key, position and row.                        *)
(***************************************************************************)
C10_RunRoundTrip ==
    (sorts > 0 /\ runs_written # <<>>) =>
        /\ Len(runs_read) = Len(runs_written)
        /\ \A i \in 1 .. Len(runs_written) :
               /\ i <= Len(runs_read)
               /\ Len(runs_read[i]) = Len(runs_written[i])
               /\ \A j \in 1 .. Len(runs_written[i]) :
                      j <= Len(runs_read[i]) =>
                          /\ runs_read[i][j].key = runs_written[i][j].key
                          /\ DecodeSortRecord(runs_read[i][j].record_bytes)
                             = runs_written[i][j]

(***************************************************************************)
(* C11.  The hashed input of a key is the source id followed, for each     *)
(* configured index in configured order that exists in the row, by one     *)
(* comma and that column's bytes; an index beyond the row contributes      *)
(* nothing.  It is the same for every position and whatever key was        *)
(* derived before.                                                         *)
(***************************************************************************)
C11_KeyInput ==
    ret.op = "generate_targeting_key" =>
        LET InRow(c) == c < Len(ret.row)
            present == SelectSeq(ret.key_columns, InRow)
        IN  ret.hashed
            = ret.source_id
              \o Concat([i \in 1 .. Len(present) |-> <<44>> \o ret.row[present[i] + 1]])

\* a key over two configured columns in descending order of which the first
\* is beyond the row and the second holds a value
C11_Witness ==
    /\ ret.op = "generate_targeting_key"
    /\ Len(ret.key_columns) = 2
    /\ ret.key_columns[1] > ret.key_columns[2]
    /\ ret.key_columns[1] >= Len(ret.row)
    /\ ret.key_columns[2] < Len(ret.row)
    /\ ret.row[ret.key_columns[2] + 1] # <<>>
    /\ ret.position = 1

(***************************************************************************)
(* C12.  An add_row call writes a run file exactly when footprint +        *)
(* estimated size of its row > budget and the batch is non-empty.  No run  *)
(* file is empty.  After a flush the batch holds only the row of this call *)
(* (when it was accepted) and the footprint is the estimated size of the   *)
(* rows of the batch.                                                      *)
(***************************************************************************)
C12_FlushExactlyWhenFull ==
    [][add_calls' = add_calls + 1 =>
          LET need == /\ current_buffer_size + KeyDataSize + SumLen(ret'.row)
                         > buffer_size_bytes
                      /\ current_batch # <<>>
          IN  /\ need => /\ Len(temp_files') = Len(temp_files) + 1
                         /\ SubSeq(temp_files', 1, Len(temp_files)) = temp_files
                         /\ ReadRun(temp_files'[Len(temp_files')].bytes, 0) \in
                                sort_unstable(current_batch)
                         /\ current_batch' =
                                (IF ret'.accepted
                                 THEN << [key |-> [value |-> generate_targeting_key(ret'.row),
                                                   position |-> ret'.position],
                                          record |-> ret'.row] >>
                                 ELSE <<>>)
                         /\ current_buffer_size' = SumEstimates(current_batch')
              /\ ~need => temp_files' = temp_files
              /\ \A i \in 1 .. Len(temp_files') : ReadRun(temp_files'[i].bytes, 0) # <<>>
      ]_vars

\* an add_row that flushed a batch of two rows, after an add_row that found
\* a non-empty batch and room for its row
C12_Witness ==
    /\ ret.op = "add_row"
    /\ ret.accepted
    /\ Len(current_batch) = 1
    /\ temp_files # <<>>
    /\ Len(ReadRun(temp_files[Len(temp_files)].bytes, 0)) = 2

(***************************************************************************)
(* C13.  In every reachable state, run-file failures included, the summed  *)
(* estimated size of the rows held in the in-memory batch is at most the   *)
(* budget plus the estimated size of one row (the largest of the batch).   *)
(***************************************************************************)
C13_BatchWithinBudget ==
    current_batch # <<>> =>
        \E i \in 1 .. Len(current_batch) :
            SumEstimates(current_batch)
            <= buffer_size_bytes + KeyDataSize + SumLen(current_batch[i].record)

(***************************************************************************)
(* C14.  The records of every run file make_run wrote are in               *)
(* non-decreasing SortKey order (TargetingKey ascending, then Position     *)
(* descending): the run files the session holds, read back from their      *)
(* first byte.                                                             *)
(***************************************************************************)
C14_RunFilesSorted ==
    \A i \in 1 .. Len(temp_files) :
        /\ IsSorted(ReadRun(temp_files[i].bytes, 0))
        /\ Len(ReadRun(temp_files[i].bytes, 0)) = Len(runs_written[i])

\* a run file of two records that were admitted in the opposite order
C14_Witness ==
    \E i \in 1 .. Len(temp_files) :
        LET r == ReadRun(temp_files[i].bytes, 0)
        IN  /\ Len(r) = 2
            /\ \E j, k \in 1 .. Len(admitted) :
                   j < k /\ admitted[j] = r[2] /\ admitted[k] = r[1]

(***************************************************************************)
(* C15.  A make_run that fails is surfaced: the add_row that called it     *)
(* does not return true, the sort that called it does not return a         *)
(* summary.                                                                *)
(***************************************************************************)
C15_RunErrorSurfaced ==
    /\ (ret.op = "add_row" /\ ret.run_error # "none") => ~ret.accepted
    /\ (ret.op = "sort" /\ ret.run_error # "none") => ~ret.ok

(***************************************************************************)
(* C16.  add_row returns false exactly for the rows the validator rejects; *)
(* a rejected row (its content, its position) is in no run file, not in    *)
(* the intermediate file, in no delivered batch and in no COPY row, and    *)
(* rows added after it are still accepted.                                 *)
(***************************************************************************)
C16_RejectedNotAdmitted ==
    LET Bad(row) == validator.some /\ validate_row(validator.rules, row)
        rejected == positions_used \ {admitted[i].key.position : i \in 1 .. Len(admitted)}
        Clean(recs) ==
            \A i \in 1 .. Len(recs) :
                ~Bad(recs[i].record) /\ recs[i].key.position \notin rejected
    IN  /\ ret.op = "add_row" => (ret.accepted <=> ~Bad(ret.row))
        /\ ret.op = "add_row" =>
               (ret.position \in rejected <=> Bad(ret.row))
        /\ Clean(current_batch)
        /\ \A i \in 1 .. Len(temp_files) : Clean(ReadRun(temp_files[i].bytes, 0))
        /\ Clean(OutputRecords)
        /\ ret.op = "each_batch" =>
               \A i \in 1 .. Len(Delivered) :
                   ~Bad(Delivered[i].row) /\ Delivered[i].position \notin rejected
        /\ ret.op = "write_binary_postgres_file" =>
               \A i \in 1 .. Len(ret.items) : ~Bad(ret.items[i].record)

\* batches delivered by a session that rejected a row and accepted two
C16_Witness ==
    /\ ret.op = "each_batch"
    /\ validator.some
    /\ Cardinality(positions_used) > Len(admitted)
    /\ Len(Delivered) >= 2

(***************************************************************************)
(* C17.  add_file counts every event after the header: the i-th event      *)
(* (from 0), record or parse error, has position i; the rows passed to     *)
(* add_row are exactly the records among the events read so far, each with *)
(* its event's index as position, so a parse error passes no row and the   *)
(* records after it are still passed.                                      *)
(***************************************************************************)
C17_PositionPerEvent ==
    LET IsRecord(e) == e.event.ok
        read == SelectSeq([i \in 1 .. reading.next |->
                              [event |-> reading.events[i], index |-> i - 1]],
                          IsRecord)
    IN  /\ reading.position = reading.next
        /\ reading.passed = [i \in 1 .. Len(read) |->
                                [row |-> read[i].event.row, position |-> read[i].index]]
        /\ reading.files = 1 =>
               /\ add_calls = Len(reading.passed)
               /\ \A i \in 1 .. Len(admitted) :
                      \E j \in 1 .. Len(reading.passed) :
                          /\ admitted[i].record = reading.passed[j].row
                          /\ admitted[i].key.position = reading.passed[j].position
        /\ (ret.op = "add_row" /\ reading.active) =>
               /\ reading.passed # <<>>
               /\ ret.row = reading.passed[Len(reading.passed)].row
               /\ ret.position = reading.passed[Len(reading.passed)].position

\* a file read to its end whose events were a record, a parse error and a
\* record, the last one admitted with position 2
C17_Witness ==
    /\ ret.op = "add_file"
    /\ Len(reading.events) = 3
    /\ reading.events[1].ok /\ ~reading.events[2].ok /\ reading.events[3].ok
    /\ \E i \in 1 .. Len(admitted) :
           admitted[i].key.position = 2 /\ admitted[i].record = reading.events[3].row

(***************************************************************************)
(* C18.  No two rows admitted through add_file carry the same position,    *)
(* for any number of add_file calls on the session.                        *)
(***************************************************************************)
C18_PositionsUnique ==
    \A i, j \in 1 .. Len(admitted) :
        i # j => admitted[i].key.position # admitted[j].key.position

(***************************************************************************)
(* C19.  A file write_binary_postgres_file completed is the 19-byte header *)
(* (signature, 32-bit 0, 32-bit 0), then one tuple of 6 columns for each   *)
(* record of the intermediate file in file order (source key, hex of the   *)
(* TargetingKey, geometry, the row, two timestamps), then the 16-bit       *)
(* trailer -1, and nothing after it.                                       *)
(***************************************************************************)
C19_CopyFraming ==
    (ret.op = "write_binary_postgres_file" /\ ret.ok) =>
        LET body == ReadCopyTuples(ret.file, 19, <<>>)
        IN  /\ CanRead(ret.file, 0, 19)
            /\ Take(ret.file, 0, 19)
               = <<80, 71, 67, 79, 80, 89, 10, 255, 13, 10, 0, 0, 0, 0, 0, 0, 0, 0, 0>>
            /\ body.ok
            /\ body.end = Len(ret.file)
            /\ Len(body.tuples) = Len(OutputRecords)
            /\ \A i \in 1 .. Len(body.tuples) :
                   LET t == body.tuples[i]
                       row == ReadArrayElements(t[4].bytes)
                   IN  /\ Len(t) = 6
                       /\ t[1] = [null |-> FALSE, bytes |-> source_key]
                       /\ t[2] = [null |-> FALSE,
                                  bytes |-> HexEncode(OutputRecords[i].key.value)]
                       /\ row.ok
                       /\ [j \in 1 .. Len(row.cols) |-> row.cols[j].bytes]
                          = OutputRecords[i].record
                       /\ ~t[5].null /\ Len(t[5].bytes) = 8
                       /\ t[6] = t[5]

\* a completed COPY file of three tuples or more over two keys
C19_Witness ==
    /\ ret.op = "write_binary_postgres_file"
    /\ ret.ok
    /\ Len(ret.items) >= 3
    /\ \E i, j \in 1 .. Len(ret.items) : ret.items[i].target_key # ret.items[j].target_key

(***************************************************************************)
(* C20.  write_row is atomic: when encoding a column of the row fails, no  *)
(* byte of the row has reached the output, neither the 16-bit column count *)
(* nor the columns before the failing one.                                 *)
(***************************************************************************)
C20_RowAtomic ==
    (ret.op = "write_row" /\ ~ret.ok) => ret.out = ret.before

(***************************************************************************)
(* C21.  write_row on a row whose length differs from the number of column *)
(* types the writer was created with returns an invalid-input error and    *)
(* writes nothing: the output is what it was before the call.              *)
(***************************************************************************)
C21_LengthMismatch ==
    (ret.op = "write_row" /\ Len(ret.row) # Len(ret.types))
        => /\ ~ret.ok
           /\ ret.error = "InvalidInput"
           /\ ret.out = ret.before

\* a non-empty row handed to a writer of more, and of fewer, column types
C21_Witness ==
    /\ ret.op = "write_row"
    /\ Len(ret.row) >= 1
    /\ Len(ret.types) >= 1
    /\ Len(ret.row) # Len(ret.types)
    /\ ~ret.ok

(***************************************************************************)
(* C22.  The geometry column of a COPY tuple is NULL (length -1 and no     *)
(* payload), never a point at the origin, when no geo columns are          *)
(* configured, when the latitude or the longitude index is beyond the row, *)
(* or when either value is not a number; otherwise it is the point         *)
(* (longitude, latitude) with SRID 4326.                                   *)
(***************************************************************************)
C22_GeometryColumn ==
    ret.op = "copy_record" =>
        LET double == (<<48>> :> <<0, 0, 0, 0, 0, 0, 0, 0>>)
                      @@ (<<49>> :> <<0, 0, 0, 0, 0, 0, 240, 63>>)
                      @@ (<<45, 50>> :> <<0, 0, 0, 0, 0, 0, 0, 192>>)
            geo    == ret.geo_indexes
            row    == ret.row
            usable == /\ geo # None
                      /\ geo[1][1] < Len(row)
                      /\ geo[1][2] < Len(row)
                      /\ row[geo[1][1] + 1] \in DOMAIN double
                      /\ row[geo[1][2] + 1] \in DOMAIN double
            tuple  == ReadCopyColumns(ret.out, 2, 6, <<>>)
        IN  /\ tuple.ok
            /\ tuple.off = Len(ret.out)
            /\ IF usable
               THEN tuple.cols[3] =
                        [null  |-> FALSE,
                         bytes |-> <<1, 1, 0, 0, 32, 230, 16, 0, 0>>
                                   \o double[row[geo[1][2] + 1]]
                                   \o double[row[geo[1][1] + 1]]]
               ELSE tuple.cols[3] = [null |-> TRUE, bytes |-> <<>>]

\* geo columns inside the row, a latitude that is a number and a longitude
\* that is not: the tuple is written with a NULL geometry
C22_Witness ==
    /\ ret.op = "copy_record"
    /\ ret.geo_indexes = Some(<<0, 1>>)
    /\ ret.row = <<<<49>>, <<120>>>>
    /\ ret.item.geo_key = None
    /\ Take(ret.out, 2 + 4 + Len(source_key) + 4 + 40, 4) = NullColumn

(***************************************************************************)
(* C23.  The EWKB type id of a point is 0x00000001 with 0x20000000 set     *)
(* exactly when it has an SRID, 0x80000000 exactly when it has a Z and     *)
(* 0x40000000 exactly when it has an M; the body is x, y, then z and m     *)
(* when present.  A point built by Geometry::new has neither Z nor M: its  *)
(* type id is 0x20000001 with an SRID and 0x00000001 without.              *)
(***************************************************************************)
C23_TypeId ==
    ret.op \in {"Geometry::new", "to_sql"} =>
        LET g  == ret.g
            id == ret.type_id
            bit(k) == (id.hi \div k) % 2 = 1
            opt(o) == IF o = None THEN <<>> ELSE o[1]
        IN  /\ id.lo = 1
            /\ id.hi % 8192 = 0
            /\ bit(8192) <=> g.srid # None
            /\ bit(32768) <=> g.z # None
            /\ bit(16384) <=> g.m # None
            /\ Take(ret.ewkb, 0, 5) = <<1, 1, 0, id.hi % 256, id.hi \div 256>>
            /\ Take(ret.ewkb, 5, Len(ret.ewkb) - 5)
                   = (IF g.srid = None THEN <<>> ELSE <<230, 16, 0, 0>>)
                     \o g.x \o g.y \o opt(g.z) \o opt(g.m)
            /\ ret.op = "Geometry::new"
                   => /\ g.z = None /\ g.m = None
                      /\ id.hi = (IF g.srid = None THEN 0 ELSE 8192)

\* a point with an SRID, a Z and an M has been encoded
C23_Witness ==
    /\ ret.op = "to_sql"
    /\ ret.g.srid # None /\ ret.g.z # None /\ ret.g.m # None
    /\ ret.type_id.hi = 57344
    /\ Len(ret.ewkb) = 41

RECURSIVE LeadingRecords(_, _, _)
\* the number of whole, decodable records a file starts with from offset
\* off on, and the offset where they end
LeadingRecords(file, off, n) ==
    IF ~CanRead(file, off, 4) THEN [n |-> n, end |-> off]
    ELSE LET len == from_le_bytes(Take(file, off, 4))
         IN  IF CanReadRecord(file, off)
                /\ CanDecodeSortRecord(Take(file, off + 4, len))
             THEN LeadingRecords(file, off + 4 + len, n + 1)
             ELSE [n |-> n, end |-> off]

(***************************************************************************)
(* C24.  A stream-level error aborts the COPY: when a record of the        *)
(* intermediate file cannot be read or decoded, or a row cannot be         *)
(* written, copy returns the error, writes no further row and does not     *)
(* write the trailer: the output is the header and the rows before the     *)
(* failure.                                                                *)
(***************************************************************************)
C24_StreamErrorAborts ==
    ret.op = "copy" =>
        LET lead        == LeadingRecords(ret.input, 0, 0)
            write_fails == ret.fails_at # None /\ ret.fails_at[1] < lead.n
            read_fails  == lead.end < Len(ret.input)
            rows        == IF write_fails THEN ret.fails_at[1] ELSE lead.n
        IN  (write_fails \/ read_fails)
                => /\ ~ret.ok
                   /\ Len(ret.items) = rows
                   /\ ret.file = write_header
                                  \o Concat([i \in 1 .. rows |-> write_row(ret.items[i], 1000)])

\* the arrangements of n of the admitted records, none of them twice
AdmittedArrangements(n) ==
    {[i \in 1 .. n |-> admitted[p[i]]] :
        p \in {q \in [1 .. n -> 1 .. Len(admitted)] :
                  \A i, j \in 1 .. n : q[i] = q[j] => i = j}}

C26_BatchesAreFileRecords ==
    (ret.op = "each_batch" /\ ret.batch_size >= 1) =>
        LET recs == OutputRecords
            kept == {i \in 1 .. Len(recs) :
                        Cardinality({j \in 1 .. i - 1 :
                                        recs[j].key.value = recs[i].key.value})
                        < DEFAULT_MAX_TARGETING_KEY_ROWS}
            nth(k) == CHOOSE i \in kept : Cardinality({j \in kept : j < i}) = k - 1
        IN  /\ Len(Delivered) = Cardinality(kept)
            /\ \A k \in 1 .. Len(Delivered) :
                   /\ Len(Delivered[k].key_hex) = 40
                   /\ Delivered[k].key_hex = HexEncode(recs[nth(k)].key.value)
                   /\ Delivered[k].row = recs[nth(k)].record
                   /\ Delivered[k].position = recs[nth(k)].key.position
            /\ \A b \in 1 .. Len(ret.batches) : ret.batches[b] # <<>>

\* batches that end with a partial one, of a file with an over-cap record
\* that is followed by a record of another key
C26_Witness ==
    /\ ret.op = "each_batch"
    /\ ret.batch_size >= 2
    /\ Len(ret.batches) >= 2
    /\ Len(ret.batches[Len(ret.batches)]) < ret.batch_size
    /\ Len(Delivered) < Len(OutputRecords)
    /\ Delivered[Len(Delivered)].row = OutputRecords[Len(OutputRecords)].record
    /\ Delivered[Len(Delivered)].position
       = OutputRecords[Len(OutputRecords)].key.position

\* the records validate_csv has applied its rules to: none when the records
\* are shorter than the pattern (the first one ends the call)
ValidatedRows == IF Len(ret.rules) > Len(ret.headers) THEN <<>> ELSE ret.rows

\* the field of column c (1-based) of a record breaks the rule of the kind
FieldFails(kind, record, c) ==
    /\ c <= Len(ret.rules)
    /\ c <= Len(record)
    /\ ret.rules[c] = kind
    /\ record[c] # <<>>
    /\ IF kind = "Url" THEN ~UrlParses(record[c]) ELSE ~ContainsProtocol(record[c])

\* the row breaks a rule of the kind in some column
RowFails(kind, record) == \E c \in 1 .. Len(ret.rules) : FieldFails(kind, record, c)

\* the lines the log is to hold for the rows validated: for each row, in
\* column order, one line for the first column that breaks a url rule and
\* one for the first that breaks a protocol rule; the column is written as
\* its 1-based number or as its header name
ExpectedLines(numbered) ==
    LET first(kind, record, c) ==
            FieldFails(kind, record, c)
            /\ \A d \in 1 .. c - 1 : ~FieldFails(kind, record, d)
        line(record, row, c, message) ==
            record[c] \o message \o <<44>> \o ToDecimal(row) \o <<44>>
            \o (IF numbered THEN ToDecimal(c) ELSE ret.headers[c]) \o <<10>>
        of_row(row) ==
            LET record == ValidatedRows[row]
            IN  Concat([c \in 1 .. Len(ret.rules) |->
                    IF first("Url", record, c) THEN line(record, row, c, URL_MESSAGE)
                    ELSE IF first("Protocol", record, c)
                         THEN line(record, row, c, PROTOCOL_MESSAGE)
                    ELSE <<>>])
    IN  Concat([row \in 1 .. Len(ValidatedRows) |-> of_row(row)])

(***************************************************************************)
(* C29.  The result of sort does not depend on the memory budget: for the  *)
(* rows add_row accepted, the intermediate file is the file the in-memory  *)
(* path writes for them, whatever the budget made of them (one batch kept  *)
(* in memory, or any number of run files), and so are the batches          *)
(* each_batch delivers.                                                    *)
(***************************************************************************)
C29_BudgetIndependent ==
    sorts > 0 =>
        \E sorted \in sort_unstable(admitted) :
            /\ output_file = write_records(sorted).bytes
            /\ ret.op = "each_batch" =>
                   ret.batches
                   = each_batch(write_records(sorted).bytes, ret.batch_size).batches

(***************************************************************************)
(* C30.  After any sequence of add_row and sort calls, the intermediate    *)
(* file holds exactly total_rows readable records, total_rows being what   *)
(* the most recent sort returned, and nothing after them: each_batch and   *)
(* write_binary_postgres_file read total_rows records and end without an   *)
(* error.                                                                  *)
(***************************************************************************)
C30_OnlyLastSortReadable ==
    sorts > 0 =>
        /\ LeadingRecords(output_file, 0, 0).n = total_rows
        /\ LeadingRecords(output_file, 0, 0).end = Len(output_file)
        /\ ret.op = "each_batch" => ret.ok
        /\ ret.op = "write_binary_postgres_file" =>
               ret.ok /\ Len(ret.items) = total_rows

C28_CountersPerRow ==
    ret.op = "validate_csv" =>
        LET failing(kind) == {i \in 1 .. Len(ValidatedRows) : RowFails(kind, ValidatedRows[i])}
            lines == Cardinality({i \in 1 .. Len(ret.log) : ret.log[i] = 10})
        IN  /\ ret.url = Cardinality(failing("Url"))
            /\ ret.protocol = Cardinality(failing("Protocol"))
            /\ ret.error_log => lines = 1 + ret.url + ret.protocol
            /\ ~ret.error_log => ret.log = <<>>

\* two rows that break a url rule, one of them in both of its columns: three
\* failing fields or more, two increments
C28_Witness ==
    /\ ret.op = "validate_csv"
    /\ ret.error_log
    /\ Len(ret.rows) = 2
    /\ \E i \in 1 .. 2 : FieldFails("Url", ret.rows[i], 1) /\ FieldFails("Url", ret.rows[i], 2)
    /\ ret.url = 2

(***************************************************************************)
(* C31.  In every reachable state current_buffer_size is the summed        *)
(* estimate_row_size of the rows held in current_batch: after accepted and *)
(* rejected add_row calls, after a flush to a run file, after sort, and    *)
(* after a make_run that failed.                                           *)
(***************************************************************************)
C31_FootprintIsBatchEstimate == current_buffer_size = SumEstimates(current_batch)

(***************************************************************************)
(* C32.  An add_row call whose row the validator rejects leaves the sort   *)
(* state as it was: the run files, the in-memory batch and the footprint   *)
(* are the same after the call as before it.                               *)
(***************************************************************************)
C32_RejectedLeavesSortState ==
    [][(add_calls' = add_calls + 1 /\ ~ret'.accepted) =>
          /\ temp_files' = temp_files
          /\ current_batch' = current_batch
          /\ current_buffer_size' = current_buffer_size
      ]_vars

(***************************************************************************)
(* C36.  each_batch never calls the block with an empty batch, for every   *)
(* batch size from 0 on and every intermediate file; for an empty file the *)
(* block is not called at all.                                             *)
(***************************************************************************)
C36_NoEmptyBatch ==
    ret.op = "each_batch" =>
        /\ \A b \in 1 .. Len(ret.batches) : ret.batches[b] # <<>>
        /\ output_file = <<>> => ret.batches = <<>>

(***************************************************************************)
(* C37.  For a batch size N of 1 or more, every batch each_batch delivers  *)
(* but possibly the last holds at least N items, and every batch holds at  *)
(* most N - 1 + max_per_key items.                                         *)
(***************************************************************************)
C37_BatchLengths ==
    (ret.op = "each_batch" /\ ret.batch_size >= 1) =>
        /\ \A b \in 1 .. Len(ret.batches) - 1 : Len(ret.batches[b]) >= ret.batch_size
        /\ \A b \in 1 .. Len(ret.batches) :
               Len(ret.batches[b])
               <= ret.batch_size - 1 + DEFAULT_MAX_TARGETING_KEY_ROWS

\* a batch of the greatest length, N - 1 + max_per_key with N = 2: one row
\* of a key and max_per_key rows of the next key, of which the file holds
\* more
C37_Witness ==
    /\ ret.op = "each_batch"
    /\ ret.batch_size = 2
    /\ \E b \in 1 .. Len(ret.batches) :
           Len(ret.batches[b]) = ret.batch_size - 1 + DEFAULT_MAX_TARGETING_KEY_ROWS
    /\ Len(Delivered) < Len(OutputRecords)


(***************************************************************************)
(* C38: for a fixed source id and key-column list, two rows are fed to the *)
(* hasher as the same bytes only if they agree at every configured key     *)
(* column: the same columns are present and they hold the same values.     *)
(***************************************************************************)
\* what a row holds at each configured key column: absent, or its value
KeyColumnValues(row, cols) ==
    [i \in 1 .. Len(cols) |->
        IF HasCol(row, cols[i])
        THEN [present |-> TRUE, value |-> Col(row, cols[i])]
        ELSE [present |-> FALSE, value |-> <<>>]]

C38_HashInputInjective ==
    ret.op = "generate_targeting_key" =>
        \A other \in KeyRows :
            ret.source_id \o HashInput(other, ret.key_columns) = ret.hashed
            => KeyColumnValues(other, ret.key_columns)
               = KeyColumnValues(ret.row, ret.key_columns)


(***************************************************************************)
(* C33: each_batch does not change the session.  While a call is under way *)
(* and when it returns, the intermediate file, the in-memory batch and the *)
(* run files are what they were; and an each_batch that returns Ok right   *)
(* after an each_batch that returned Ok for the same batch size has        *)
(* delivered the same sequence of batches.                                 *)
(***************************************************************************)
C33_EachBatchLeavesSession ==
    [][/\ (calling.active \/ calling'.active) =>
              /\ output_file' = output_file
              /\ current_batch' = current_batch
              /\ temp_files' = temp_files
       /\ (/\ ret.op = "each_batch" /\ ret.ok
           /\ ret'.op = "each_batch" /\ ret'.ok
           /\ ~calling'.active
           /\ ret'.batch_size = ret.batch_size) => ret'.batches = ret.batches
      ]_vars

\* a second call for the same batch size has delivered, in its yield of the
\* remaining records, the two or more batches of the call before it
C33_Witness ==
    /\ ret.op = "each_batch" /\ ret.ok
    /\ Len(ret.batches) >= 2
    /\ calling.active
    /\ calling.kind = "last"
    /\ calling.batch_size = ret.batch_size
    /\ calling.delivered = ret.batches

(***************************************************************************)
(* C34: when the block raises on a batch, each_batch returns the error at  *)
(* that batch: what it delivered ends with the batch the block raised on   *)
(* and each_batch is not running any more; the each_batch call after it    *)
(* begins with the first record of the intermediate file.                  *)
(***************************************************************************)
C34_RaiseStopsEachBatch ==
    [][/\ (calling.active /\ ret'.op = "each_batch" /\ ret'.raised /\ ret' # ret) =>
              /\ ~ret'.ok
              /\ ~calling'.active
              /\ ret'.batches = calling.delivered
       /\ calling'.active => ~calling'.raised
       /\ (~calling.active /\ calling'.active /\ ret.op = "each_batch" /\ ret.raised) =>
              Head(Head(calling'.delivered)) = BatchItem(OutputRecords[1])
      ]_vars

\* the block raised on the first batch of a file that holds more records,
\* and the next call has delivered that first batch again
C34_Witness ==
    /\ ret.op = "each_batch" /\ ret.raised
    /\ Len(ret.batches) = 1
    /\ Len(Delivered) < Len(OutputRecords)
    /\ calling.active
    /\ calling.delivered = ret.batches

(***************************************************************************)
(* C35: while the block runs, a call it makes to add_row, add_file, sort,  *)
(* each_batch or write_binary_postgres_file of the same session fails on   *)
(* the borrow and leaves the session as it was.                            *)
(***************************************************************************)
\* a step of the block: each_batch is waiting for it before and after
InBlockStep ==
    calling.active /\ calling'.active /\ calling'.delivered = calling.delivered

\* the session but for the block's own record of the call
SessionUnchanged ==
    /\ current_batch' = current_batch
    /\ current_buffer_size' = current_buffer_size
    /\ temp_files' = temp_files
    /\ output_file' = output_file
    /\ total_rows' = total_rows
    /\ ret' = ret

C35_ReentrantCallFails ==
    [][InBlockStep =>
           /\ SessionUnchanged
           /\ calling'.inner \in {"add_row", "add_file", "sort", "each_batch",
                                  "write_binary_postgres_file"}
      ]_vars

\* C35 as amended: add_file fails on the borrow when its file holds a record
\* or a parse error; for a file that holds neither it returns Ok(()) and
\* never reaches the session
C35_ReentrantCallLeavesSession ==
    [][InBlockStep =>
           /\ SessionUnchanged
           /\ calling'.inner \in {"add_row", "add_file", "sort", "each_batch",
                                  "write_binary_postgres_file", "add_file returned"}
      ]_vars

\* the block has called add_file with a file that holds a record or a parse
\* error, on a session whose intermediate file holds rows
C35_Witness ==
    /\ calling.active
    /\ calling.inner = "add_file"
    /\ output_file # <<>>


(***************************************************************************)
(* C39: when validate_csv is given a reversed output path and returns Ok,  *)
(* the file at that path reads as the header row and then every data row   *)
(* of the input once, from the last to the first, whatever chunks the rows *)
(* were written in.                                                        *)
(***************************************************************************)
RECURSIVE ParseCsv(_, _, _, _, _, _)
\* what a CSV reader makes of the bytes bs from index i on: state is
\* "start" at the start of a field, "plain" inside an unquoted field,
\* "quoted" inside quotes and "quote" after a quote inside quotes; field and
\* record are what was read of the current field and record; an empty line
\* is no record
ParseCsv(bs, i, state, field, record, records) ==
    IF i > Len(bs)
    THEN IF state = "start" /\ record = <<>> THEN records
         ELSE Append(records, Append(record, field))
    ELSE LET c == bs[i]
         IN  IF state = "quoted"
             THEN IF c = 34 THEN ParseCsv(bs, i + 1, "quote", field, record, records)
                  ELSE ParseCsv(bs, i + 1, "quoted", Append(field, c), record, records)
             ELSE IF c = 34 /\ state = "start"
             THEN ParseCsv(bs, i + 1, "quoted", field, record, records)
             ELSE IF c = 34 /\ state = "quote"
             THEN ParseCsv(bs, i + 1, "quoted", Append(field, c), record, records)
             ELSE IF c = 44
             THEN ParseCsv(bs, i + 1, "start", <<>>, Append(record, field), records)
             ELSE IF c = 10
             THEN IF state = "start" /\ record = <<>>
                  THEN ParseCsv(bs, i + 1, "start", <<>>, <<>>, records)
                  ELSE ParseCsv(bs, i + 1, "start", <<>>, <<>>,
                                Append(records, Append(record, field)))
             ELSE ParseCsv(bs, i + 1, "plain", Append(field, c), record, records)

\* the records of a CSV file
CsvRecords(bs) == ParseCsv(bs, 1, "start", <<>>, <<>>, <<>>)

C39_ReversedOutput ==
    (ret.status = "Ok" /\ ret.reversed) =>
        CsvRecords(ret.out) = <<ret.headers>> \o Reversed(ret.rows)

\* two different rows, each written as a chunk of its own, one of them a
\* row the writer has to quote
C39_Witness ==
    /\ ret.status = "Ok" /\ ret.reversed
    /\ Len(ret.rows) = 2
    /\ ret.rows[1] # ret.rows[2]
    /\ \E i \in 1 .. 2 : ret.rows[i] \in {<< <<>> >>, << <<44>> >>}
    /\ Len(ret.temp_files) = 2


(***************************************************************************)
(* C40: dedupe_csv's output holds, after the header row, the records in    *)
(* the order of their keys and, within a key, from the highest line number *)
(* down: for each key the min(keep, n) records with the highest line       *)
(* numbers among the n input records of that key, however many run files   *)
(* the input was cut into.  The order of the keys is that of the merge:    *)
(* key_hash, then key.                                                     *)
(***************************************************************************)
\* the input records with their keys and line numbers
DedupeInput ==
    {[key_hash |-> ret.hash[<<Col(ret.input[i], 0)>>], key |-> <<Col(ret.input[i], 0)>>,
      line_no |-> i - 1, record |-> ret.input[i]] : i \in 1 .. Len(ret.input)}

\* the records of the input that are among the keep newest of their key
DedupeNewest ==
    {r \in DedupeInput :
        Cardinality({s \in DedupeInput : s.key = r.key /\ s.line_no > r.line_no})
        < ret.keep}

\* the newest records in the order of HeapItem::cmp
DedupeExpected ==
    LET rank(r) == Cardinality({s \in DedupeNewest : HeapItemCmp(s, r) < 0})
    IN  [k \in 1 .. Cardinality(DedupeNewest) |->
            (CHOOSE r \in DedupeNewest : rank(r) = k - 1).record]

C40_MergeKeepsNewest ==
    (ret.op = "dedupe_csv" /\ ret.status = "Ok") =>
        CsvRecords(ret.out) = <<DedupeHeaders>> \o DedupeExpected

=============================================================================
